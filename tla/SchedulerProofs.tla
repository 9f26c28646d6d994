-------------------------- MODULE SchedulerProofs ---------------------------
(***************************************************************************)
(* TLAPS proofs about SchedulingQueue, for any set of keys, any limits and *)
(* any sequence of calls, and about Scheduler: its calls are calls the     *)
(* queue allows, so the queue's theorems carry over, and no pending        *)
(* sandbox is forgotten. The last parts are about ClusterCache: what the   *)
(* scheduler's cache says of a sandbox, however informer events,           *)
(* assumptions and bindings interleave; and about Placement: the books of  *)
(* the nodes.                                                              *)
(***************************************************************************)
EXTENDS Scheduler, ClusterCache, Placement, RecursionTheorems, FiniteSetTheorems, TLAPS

\* The inductive invariant: no conjunct but the first is inductive alone.
\* KnownNotUnschedulable needs to know that a waiting key is unique, and the
\* flush keeps MapSound because a waiting key has no map entry to overtake.
QueueInv ==
    /\ QueueTypeOK
    /\ MapSound
    /\ KnownNotUnschedulable
    /\ BackoffRecorded

USE DEF Tenants

\* calculateBackoff (queue.go) returns a positive duration, at most the cap,
\* for every attempt number the limit allows.
LEMMA BackoffPositive ==
    ASSUME NEW n \in 1..maxSchedulingAttempts
    PROVE  /\ calculateBackoff(n) \in Nat \ {0}
           /\ calculateBackoff(n) <= maxBackoffDuration
BY BackoffAssumption, NoOverflowAssumption DEF calculateBackoff

\* The retry of AddUnschedulableIfNotPresent is the same sandbox, one attempt on.
LEMMA RetryInfo ==
    ASSUME NEW inf \in Retryable
    PROVE  /\ [inf EXCEPT !.attempts = @ + 1] \in SandboxInfos
           /\ [inf EXCEPT !.attempts = @ + 1].key = inf.key
           /\ [inf EXCEPT !.attempts = @ + 1].attempts \in 1..maxSchedulingAttempts
BY AttemptsAssumption DEF Retryable, SandboxInfos

LEMMA InitInv == QueueInit => QueueInv
BY BackoffAssumption
   DEF QueueInit, QueueInv, QueueTypeOK, MapSound, KnownNotUnschedulable,
       BackoffRecorded, Exists, InUnschedulable, Item

LEMMA AddInv ==
    ASSUME QueueInv, NEW inf \in SandboxInfos, Add(inf)
    PROVE  QueueInv'
<1> DEFINE new == [info |-> inf, timestamp |-> clock]
<1> USE DEF QueueInv, Add, Without
<1>0. inf.key \in Keys /\ new \in Wrappers /\ new.info.key = inf.key /\ new.timestamp = clock
  BY DEF QueueTypeOK, SandboxInfos, Wrappers
<1>1. QueueTypeOK'
  BY <1>0 DEF QueueTypeOK
<1>2. MapSound'
  <2>1. ASSUME NEW k \in Keys, Exists(k)'
        PROVE  \E w \in activeQ' : w.info.key = k /\ w.timestamp = itemMap'[k]
    BY <2>1, <1>0 DEF QueueTypeOK, MapSound, Exists
  <2>2. ASSUME NEW w \in activeQ'
        PROVE  w.timestamp < clock' /\ (Exists(w.info.key)' => w.timestamp <= itemMap'[w.info.key])
    BY <1>0 DEF QueueTypeOK, MapSound, Exists, Wrappers, SandboxInfos
  <2>3. ASSUME NEW w \in activeQ', NEW v \in activeQ',
               w.info.key = v.info.key, w.timestamp = v.timestamp
        PROVE  w = v
    BY <1>0, <2>3 DEF QueueTypeOK, MapSound, Wrappers
  <2> QED BY <2>1, <2>2, <2>3 DEF MapSound, Exists
<1>3. KnownNotUnschedulable'
  BY <1>0 DEF QueueTypeOK, KnownNotUnschedulable, Exists, InUnschedulable, Item
<1>4. BackoffRecorded'
  BY DEF QueueTypeOK, BackoffRecorded, UnschedulableItems, SandboxInfos
<1> QED BY <1>1, <1>2, <1>3, <1>4

LEMMA AddUnschedulableInv ==
    ASSUME QueueInv, NEW inf \in Retryable, AddUnschedulableIfNotPresent(inf)
    PROVE  QueueInv'
<1> DEFINE retry == [inf EXCEPT !.attempts = @ + 1]
           b     == calculateBackoff(retry.attempts)
           item  == [info |-> retry, retryAfter |-> clock + b]
<1>0. /\ inf.key \in Keys /\ retry \in SandboxInfos /\ retry.key = inf.key
      /\ retry.attempts \in 1..maxSchedulingAttempts
  BY RetryInfo DEF Retryable, SandboxInfos
<1>1. b \in Nat \ {0} /\ b <= maxBackoffDuration
  BY <1>0, BackoffPositive
<1> HIDE DEF retry, b
<1>2. CASE Exists(inf.key)
  <2>1. UNCHANGED qvars
    BY <1>2 DEF AddUnschedulableIfNotPresent, qvars
  <2> QED BY <2>1 DEF qvars, QueueInv, QueueTypeOK, MapSound, KnownNotUnschedulable,
                      BackoffRecorded, Exists, InUnschedulable, Item
<1>3. CASE ~ Exists(inf.key)
  <2>1. /\ backoffMap' = [backoffMap EXCEPT ![inf.key] = b]
        /\ unschedulableQ' = Without(unschedulableQ, inf.key) \cup {item}
        /\ UNCHANGED <<activeQ, itemMap, clock>>
    BY <1>3 DEF AddUnschedulableIfNotPresent, retry, b
  <2>2. item \in UnschedulableItems /\ item.info.key = inf.key /\ item.retryAfter = clock + b
    BY <1>0, <1>1 DEF UnschedulableItems, QueueInv, QueueTypeOK
  <2> HIDE DEF item
  <2>3. QueueTypeOK'
    BY <2>1, <2>2, <1>0, <1>1 DEF QueueInv, QueueTypeOK, Without
  <2>4. MapSound'
    BY <2>1 DEF QueueInv, MapSound, Exists
  <2>5. KnownNotUnschedulable'
    BY <2>1, <2>2, <1>3 DEF QueueInv, KnownNotUnschedulable, Exists, InUnschedulable, Item, Without
  <2>6. BackoffRecorded'
    <3>1. ASSUME NEW u \in unschedulableQ'
          PROVE  backoffMap'[u.info.key] # 0 /\ u.retryAfter <= clock' + backoffMap'[u.info.key]
      BY <2>1, <2>2, <1>0, <1>1
         DEF QueueInv, QueueTypeOK, BackoffRecorded, Without, UnschedulableItems, SandboxInfos
    <3>2. ASSUME NEW u \in unschedulableQ', NEW v \in unschedulableQ', u.info.key = v.info.key
          PROVE  u = v
      BY <2>1, <2>2, <3>2 DEF QueueInv, BackoffRecorded, Without
    <3>3. \A k \in Keys : backoffMap'[k] <= maxBackoffDuration
      BY <2>1, <1>0, <1>1 DEF QueueInv, QueueTypeOK, BackoffRecorded
    <3> QED BY <3>1, <3>2, <3>3 DEF BackoffRecorded
  <2> QED BY <2>3, <2>4, <2>5, <2>6 DEF QueueInv
<1> QED BY <1>2, <1>3

\* The wrapper a Pop takes may not be the one the map points at; deleting the
\* key's entry all the same is what keeps the map from dangling.
LEMMA PopInv ==
    ASSUME QueueInv, NEW w \in activeQ, Pop(w)
    PROVE  QueueInv'
<1>0. w.info.key \in Keys
  BY DEF QueueInv, QueueTypeOK, Wrappers, SandboxInfos
<1>1. QueueTypeOK'
  BY DEF QueueInv, QueueTypeOK, Pop
<1>2. MapSound'
  <2>1. ASSUME NEW k \in Keys, Exists(k)'
        PROVE  \E x \in activeQ' : x.info.key = k /\ x.timestamp = itemMap'[k]
    <3>1. k # w.info.key /\ itemMap'[k] = itemMap[k] /\ Exists(k)
      BY <2>1, <1>0 DEF Exists, Pop, QueueInv, QueueTypeOK
    <3> QED BY <3>1 DEF Pop, QueueInv, MapSound
  <2>2. ASSUME NEW x \in activeQ'
        PROVE  x.timestamp < clock' /\ (Exists(x.info.key)' => x.timestamp <= itemMap'[x.info.key])
    <3>1. x \in activeQ /\ x.info.key \in Keys
      BY DEF Pop, QueueInv, QueueTypeOK, Wrappers, SandboxInfos
    <3> QED BY <3>1, <1>0 DEF Pop, Exists, QueueInv, QueueTypeOK, MapSound
  <2> QED BY <2>1, <2>2 DEF MapSound, Pop, QueueInv, Exists
<1>3. KnownNotUnschedulable' /\ BackoffRecorded'
  BY <1>0 DEF QueueInv, QueueTypeOK, KnownNotUnschedulable, BackoffRecorded, Pop,
              Exists, InUnschedulable, Item
<1> QED BY <1>1, <1>2, <1>3 DEF QueueInv

LEMMA DeleteInv ==
    ASSUME QueueInv, NEW key \in Keys, Delete(key)
    PROVE  QueueInv'
<1> USE DEF Delete, Mapped, Without
<1>1. QueueTypeOK'
  BY DEF QueueInv, QueueTypeOK
<1>2. MapSound'
  <2>1. ASSUME NEW k \in Keys, Exists(k)'
        PROVE  \E x \in activeQ' : x.info.key = k /\ x.timestamp = itemMap'[k]
    <3>1. k # key /\ itemMap'[k] = itemMap[k] /\ Exists(k)
      BY <2>1 DEF Exists, QueueInv, QueueTypeOK
    <3> QED BY <3>1 DEF QueueInv, MapSound
  <2>2. ASSUME NEW x \in activeQ'
        PROVE  x.timestamp < clock' /\ (Exists(x.info.key)' => x.timestamp <= itemMap'[x.info.key])
    <3>1. x \in activeQ /\ x.info.key \in Keys
      BY DEF QueueInv, QueueTypeOK, Wrappers, SandboxInfos
    <3> QED BY <3>1 DEF Exists, QueueInv, QueueTypeOK, MapSound
  <2> QED BY <2>1, <2>2 DEF MapSound, QueueInv, Exists
<1>3. KnownNotUnschedulable'
  BY DEF QueueInv, QueueTypeOK, KnownNotUnschedulable, Exists, InUnschedulable, Item
<1>4. BackoffRecorded'
  BY BackoffAssumption
     DEF QueueInv, QueueTypeOK, BackoffRecorded, UnschedulableItems, SandboxInfos
<1> QED BY <1>1, <1>2, <1>3, <1>4 DEF QueueInv
\* Update rewrites the mapped wrapper, or the waiting item, in place: the push
\* time and the retry time of the sandbox stay.
LEMMA UpdateInv ==
    ASSUME QueueInv, NEW inf \in SandboxInfos, Update(inf)
    PROVE  QueueInv'
<1>0. inf.key \in Keys
  BY DEF SandboxInfos
<1>1. CASE Exists(inf.key)
  <2>1. /\ activeQ' = (activeQ \ Mapped(inf.key)) \cup
                      {[w EXCEPT !.info = inf] : w \in Mapped(inf.key)}
        /\ UNCHANGED <<itemMap, unschedulableQ, backoffMap, clock>>
    BY <1>1 DEF Update
  <2>2. PICK m \in activeQ : m.info.key = inf.key /\ m.timestamp = itemMap[inf.key]
    BY <1>0, <1>1 DEF QueueInv, MapSound
  <2>3. Mapped(inf.key) = {m}
    BY <2>2 DEF Mapped, QueueInv, MapSound
  <2> DEFINE n == [m EXCEPT !.info = inf]
  <2>4. n \in Wrappers /\ n.info = inf /\ n.timestamp = m.timestamp
    BY <2>2 DEF QueueInv, QueueTypeOK, Wrappers
  <2>5. activeQ' = (activeQ \ {m}) \cup {n}
    BY <2>1, <2>3
  <2> HIDE DEF n
  <2>6. QueueTypeOK'
    BY <2>1, <2>4, <2>5 DEF QueueInv, QueueTypeOK
  <2>7. MapSound'
    <3>1. ASSUME NEW k \in Keys, Exists(k)'
          PROVE  \E x \in activeQ' : x.info.key = k /\ x.timestamp = itemMap'[k]
      <4>1. CASE k = inf.key
        BY <4>1, <2>1, <2>2, <2>4, <2>5
      <4>2. CASE k # inf.key
        BY <4>2, <3>1, <2>1, <2>2, <2>5 DEF QueueInv, MapSound, Exists
      <4> QED BY <4>1, <4>2
    <3>2. ASSUME NEW x \in activeQ'
          PROVE  /\ x.timestamp < clock'
                 /\ Exists(x.info.key)' => x.timestamp <= itemMap'[x.info.key]
      BY <2>1, <2>2, <2>4, <2>5 DEF QueueInv, QueueTypeOK, MapSound, Exists
    <3>3. ASSUME NEW x \in activeQ', NEW v \in activeQ',
                 x.info.key = v.info.key, x.timestamp = v.timestamp
          PROVE  x = v
      BY <3>3, <2>1, <2>2, <2>4, <2>5 DEF QueueInv, MapSound
    <3> QED BY <3>1, <3>2, <3>3 DEF MapSound, Exists
  <2>8. KnownNotUnschedulable' /\ BackoffRecorded'
    BY <2>1 DEF QueueInv, KnownNotUnschedulable, BackoffRecorded, Exists, InUnschedulable, Item
  <2> QED BY <2>6, <2>7, <2>8 DEF QueueInv
<1>2. CASE ~ Exists(inf.key)
  <2> DEFINE upd(u) == [u EXCEPT !.info = inf]
  <2>1. /\ unschedulableQ' = Without(unschedulableQ, inf.key) \cup
                             {upd(u) : u \in Item(unschedulableQ, inf.key)}
        /\ UNCHANGED <<activeQ, itemMap, backoffMap, clock>>
    BY <1>2 DEF Update
  <2>2. \A u \in unschedulableQ :
           upd(u) \in UnschedulableItems /\ upd(u).info = inf /\ upd(u).retryAfter = u.retryAfter
    BY DEF QueueInv, QueueTypeOK, UnschedulableItems
  <2> HIDE DEF upd
  <2>3. \A u \in unschedulableQ' :
           \/ u \in unschedulableQ /\ u.info.key # inf.key
           \/ \E v \in unschedulableQ : v.info.key = inf.key /\ u = upd(v)
    BY <2>1 DEF Without, Item
  <2>4. QueueTypeOK'
    BY <2>1, <2>2, <2>3 DEF QueueInv, QueueTypeOK
  <2>5. MapSound'
    BY <2>1 DEF QueueInv, MapSound, Exists
  <2>6. KnownNotUnschedulable'
    BY <2>1, <2>2, <2>3 DEF QueueInv, KnownNotUnschedulable, Exists, InUnschedulable, Item
  <2>7. BackoffRecorded'
    <3>1. ASSUME NEW u \in unschedulableQ'
          PROVE  backoffMap'[u.info.key] # 0 /\ u.retryAfter <= clock' + backoffMap'[u.info.key]
      BY <2>1, <2>2, <2>3 DEF QueueInv, BackoffRecorded
    <3>2. ASSUME NEW u \in unschedulableQ', NEW v \in unschedulableQ', u.info.key = v.info.key
          PROVE  u = v
      BY <2>2, <2>3, <3>2 DEF QueueInv, BackoffRecorded
    <3> QED BY <2>1, <3>1, <3>2 DEF QueueInv, BackoffRecorded
  <2> QED BY <2>4, <2>5, <2>6, <2>7 DEF QueueInv
<1> QED BY <1>1, <1>2

\* A flushed key has no map entry before (KnownNotUnschedulable), so the pushed
\* wrapper, with the newest time of all, becomes the key's entry.
LEMMA FlushInv ==
    ASSUME QueueInv, flushUnschedulable
    PROVE  QueueInv'
<1> DEFINE flushed == {u.info.key : u \in Due(clock)}
           push(u) == [info |-> u.info, timestamp |-> clock]
<1>1. /\ unschedulableQ' = unschedulableQ \ Due(clock)
      /\ activeQ' = activeQ \cup {push(u) : u \in Due(clock)}
      /\ itemMap' = [k \in Keys |-> IF k \in flushed THEN clock ELSE itemMap[k]]
      /\ backoffMap' = [k \in Keys |-> IF k \in flushed THEN 0 ELSE backoffMap[k]]
      /\ clock' = clock + 1
  BY DEF flushUnschedulable
<1>2. \A u \in Due(clock) :
         /\ u \in unschedulableQ /\ u.info.key \in Keys /\ u.info.key \in flushed
         /\ push(u) \in Wrappers /\ push(u).info = u.info /\ push(u).timestamp = clock
  BY DEF Due, QueueInv, QueueTypeOK, UnschedulableItems, SandboxInfos, Wrappers
<1>3. \A k \in flushed : \E u \in Due(clock) : u.info.key = k
  OBVIOUS
<1> HIDE DEF flushed, push
<1>4. QueueTypeOK'
  BY <1>1, <1>2 DEF QueueInv, QueueTypeOK
<1>5. MapSound'
  <2>1. ASSUME NEW k \in Keys, Exists(k)'
        PROVE  \E x \in activeQ' : x.info.key = k /\ x.timestamp = itemMap'[k]
    <3>1. CASE k \in flushed
      BY <3>1, <1>1, <1>2, <1>3
    <3>2. CASE k \notin flushed
      BY <3>2, <2>1, <1>1 DEF QueueInv, MapSound, Exists
    <3> QED BY <3>1, <3>2
  <2>2. ASSUME NEW x \in activeQ'
        PROVE  /\ x.timestamp < clock'
               /\ Exists(x.info.key)' => x.timestamp <= itemMap'[x.info.key]
    <3>1. CASE x \in activeQ
      BY <3>1, <1>1 DEF QueueInv, QueueTypeOK, MapSound, Exists, Wrappers, SandboxInfos
    <3>2. CASE x \notin activeQ
      BY <3>2, <1>1, <1>2 DEF QueueInv, QueueTypeOK
    <3> QED BY <3>1, <3>2
  <2>3. ASSUME NEW x \in activeQ', NEW v \in activeQ',
               x.info.key = v.info.key, x.timestamp = v.timestamp
        PROVE  x = v
    <3>1. CASE x \in activeQ /\ v \in activeQ
      BY <3>1, <2>3 DEF QueueInv, MapSound
    <3>2. CASE x \notin activeQ /\ v \notin activeQ
      <4>1. PICK a \in Due(clock), b \in Due(clock) : x = push(a) /\ v = push(b)
        BY <3>2, <1>1
      <4>2. a = b
        BY <4>1, <2>3, <1>2 DEF QueueInv, BackoffRecorded
      <4> QED BY <4>1, <4>2
    <3>3. CASE x \in activeQ /\ v \notin activeQ
      BY <3>3, <2>3, <1>1, <1>2 DEF QueueInv, QueueTypeOK, MapSound
    <3>4. CASE x \notin activeQ /\ v \in activeQ
      BY <3>4, <2>3, <1>1, <1>2 DEF QueueInv, QueueTypeOK, MapSound
    <3> QED BY <3>1, <3>2, <3>3, <3>4
  <2> QED BY <2>1, <2>2, <2>3 DEF MapSound, Exists
<1>6. KnownNotUnschedulable'
  <2> SUFFICES ASSUME NEW k \in Keys, NEW u \in unschedulableQ', u.info.key = k
               PROVE  itemMap'[k] = 0
    BY DEF KnownNotUnschedulable, Exists, InUnschedulable, Item
  <2>1. k \notin flushed
    BY <1>1, <1>2, <1>3 DEF QueueInv, BackoffRecorded
  <2> QED BY <2>1, <1>1 DEF QueueInv, KnownNotUnschedulable, Exists, InUnschedulable, Item
<1>7. BackoffRecorded'
  <2>1. ASSUME NEW u \in unschedulableQ'
        PROVE  backoffMap'[u.info.key] # 0 /\ u.retryAfter <= clock' + backoffMap'[u.info.key]
    <3>1. u.info.key \notin flushed /\ u.info.key \in Keys
      BY <1>1, <1>2, <1>3 DEF QueueInv, QueueTypeOK, UnschedulableItems, SandboxInfos, BackoffRecorded
    <3> QED BY <3>1, <1>1 DEF QueueInv, QueueTypeOK, UnschedulableItems, BackoffRecorded
  <2>2. \A k \in Keys : backoffMap'[k] <= maxBackoffDuration
    BY <1>1, BackoffAssumption DEF QueueInv, BackoffRecorded
  <2> QED BY <2>1, <2>2, <1>1 DEF QueueInv, BackoffRecorded
<1> QED BY <1>4, <1>5, <1>6, <1>7 DEF QueueInv
LEMMA NextInv == QueueInv /\ [QueueNext]_qvars => QueueInv'
<1> SUFFICES ASSUME QueueInv, [QueueNext]_qvars PROVE QueueInv'
  OBVIOUS
<1>1. ASSUME NEW inf \in SandboxInfos, Add(inf) PROVE QueueInv'
  BY <1>1, AddInv
<1>2. ASSUME NEW inf \in SandboxInfos, Update(inf) PROVE QueueInv'
  BY <1>2, UpdateInv
<1>3. ASSUME NEW inf \in Retryable, AddUnschedulableIfNotPresent(inf) PROVE QueueInv'
  BY <1>3, AddUnschedulableInv
<1>4. CASE Tick
  BY <1>4 DEF Tick, QueueInv, QueueTypeOK, MapSound, KnownNotUnschedulable, BackoffRecorded,
              Exists, InUnschedulable, Item, UnschedulableItems, SandboxInfos, Wrappers
<1>5. CASE flushUnschedulable
  BY <1>5, FlushInv
<1>6. ASSUME NEW w \in activeQ, Pop(w) PROVE QueueInv'
  BY <1>6, PopInv
<1>7. ASSUME NEW k \in Keys, Delete(k) PROVE QueueInv'
  BY <1>7, DeleteInv
<1>8. CASE flushBackoff
  <2>1. QueueTypeOK' /\ MapSound' /\ KnownNotUnschedulable'
    BY <1>8 DEF flushBackoff, QueueInv, QueueTypeOK, MapSound, KnownNotUnschedulable,
                Exists, InUnschedulable, Item
  <2>2. \A k \in Keys : backoffMap'[k] = backoffMap[k]
    BY <1>8, BackoffAssumption DEF flushBackoff, QueueInv, QueueTypeOK, BackoffRecorded
  <2>3. BackoffRecorded'
    BY <1>8, <2>2
       DEF flushBackoff, QueueInv, QueueTypeOK, BackoffRecorded, UnschedulableItems, SandboxInfos
  <2> QED BY <2>1, <2>3 DEF QueueInv
<1>9. CASE UNCHANGED qvars
  BY <1>9 DEF qvars, QueueInv, QueueTypeOK, MapSound, KnownNotUnschedulable, BackoffRecorded,
              Exists, InUnschedulable, Item
<1> QED BY <1>1, <1>2, <1>3, <1>4, <1>5, <1>6, <1>7, <1>8, <1>9 DEF QueueNext
\* Whatever calls arrive, the queue's fields keep their types and Attempts its
\* limit (queue.go, PriorityQueue).
THEOREM QueueTypeCorrect == QueueSpec => []QueueTypeOK
<1>1. QueueInv => QueueTypeOK
  BY DEF QueueInv
<1> QED BY <1>1, InitInv, NextInv, PTL DEF QueueSpec

\* pq.itemMap never dangles and points at the newest wrapper, so heap.Remove and
\* heap.Fix are never called with the index of an item that has left the heap.
THEOREM MapAlwaysSound == QueueSpec => []MapSound
<1>1. QueueInv => MapSound
  BY DEF QueueInv
<1> QED BY <1>1, InitInv, NextInv, PTL DEF QueueSpec

\* A sandbox with an entry in pq.itemMap is never waiting out a backoff too.
THEOREM KnownNeverUnschedulable == QueueSpec => []KnownNotUnschedulable
<1>1. QueueInv => KnownNotUnschedulable
  BY DEF QueueInv
<1> QED BY <1>1, InitInv, NextInv, PTL DEF QueueSpec

\* backoffMap and unschedulableQ agree, within the cap.
THEOREM BackoffAlwaysRecorded == QueueSpec => []BackoffRecorded
<1>1. QueueInv => BackoffRecorded
  BY DEF QueueInv
<1> QED BY <1>1, InitInv, NextInv, PTL DEF QueueSpec

\* The maps and heaps of PriorityQueue agree, after any sequence of calls.
THEOREM QueueAlwaysSafe == QueueSpec => []QueueSafe
BY QueueTypeCorrect, MapAlwaysSound, KnownNeverUnschedulable, BackoffAlwaysRecorded, PTL DEF QueueSafe

\* A step that takes the last entry of a sandbox out is a Pop or its Delete.
LEMMA StepKeepsQueued ==
    ASSUME QueueInv, [QueueNext]_qvars, NEW k \in Keys, Queued(k), ~ Queued(k)'
    PROVE  (\E w \in activeQ : Pop(w)) \/ Delete(k)
<1> USE DEF Queued, InActive, InUnschedulable, Item
<1>0. PICK e : (e \in activeQ \/ e \in unschedulableQ) /\ e.info.key = k
  OBVIOUS
<1>1. ASSUME NEW inf \in SandboxInfos, Add(inf) PROVE FALSE
  <2> DEFINE new == [info |-> inf, timestamp |-> clock]
  <2>1. new \in activeQ' /\ new.info = inf
    BY <1>1 DEF Add
  <2> HIDE DEF new
  <2> QED BY <1>0, <1>1, <2>1 DEF Add, Without
<1>2. ASSUME NEW inf \in SandboxInfos, Update(inf) PROVE FALSE
  <2>1. CASE Exists(inf.key)
    <3>1. e \in activeQ /\ e \in Mapped(inf.key) /\ k = inf.key
      BY <1>0, <1>2, <2>1 DEF Update, Mapped
    <3>2. [e EXCEPT !.info = inf] \in activeQ' /\ [e EXCEPT !.info = inf].info = inf
      BY <1>2, <2>1, <3>1 DEF Update, QueueInv, QueueTypeOK, Wrappers
    <3> QED BY <3>1, <3>2
  <2>2. CASE ~ Exists(inf.key)
    <3>1. e \in unschedulableQ /\ k = inf.key
      BY <1>0, <1>2, <2>2 DEF Update, Without
    <3>2. [e EXCEPT !.info = inf] \in unschedulableQ' /\ [e EXCEPT !.info = inf].info = inf
      BY <1>0, <1>2, <2>2, <3>1 DEF Update, QueueInv, QueueTypeOK, UnschedulableItems
    <3> QED BY <3>1, <3>2
  <2> QED BY <2>1, <2>2
<1>3. ASSUME NEW inf \in Retryable, AddUnschedulableIfNotPresent(inf) PROVE FALSE
  <2> DEFINE retry == [inf EXCEPT !.attempts = @ + 1]
  <2>1. retry.key = inf.key
    BY RetryInfo
  <2>2. CASE Exists(inf.key)
    BY <1>0, <1>3, <2>2 DEF AddUnschedulableIfNotPresent
  <2>3. CASE ~ Exists(inf.key)
    <3> DEFINE item == [info |-> retry,
                        retryAfter |-> clock + calculateBackoff(retry.attempts)]
    <3>1. item \in unschedulableQ' /\ item.info = retry
      BY <1>3, <2>3 DEF AddUnschedulableIfNotPresent
    <3>2. \A u \in unschedulableQ : u.info.key # inf.key => u \in unschedulableQ'
      BY <1>3, <2>3 DEF AddUnschedulableIfNotPresent, Without
    <3>3. activeQ' = activeQ
      BY <1>3 DEF AddUnschedulableIfNotPresent
    <3> HIDE DEF item, retry
    <3> QED BY <1>0, <2>1, <3>1, <3>2, <3>3
  <2> QED BY <2>2, <2>3
<1>4. ~ Tick /\ ~ flushBackoff /\ ~ UNCHANGED qvars
  BY DEF Tick, flushBackoff, qvars
<1>5. ~ flushUnschedulable
  <2> SUFFICES ASSUME flushUnschedulable PROVE FALSE
    OBVIOUS
  <2>1. PICK u \in unschedulableQ : u.info.key = k /\ u \in Due(clock)
    BY DEF flushUnschedulable
  <2>2. [info |-> u.info, timestamp |-> clock] \in activeQ'
    BY <2>1 DEF flushUnschedulable
  <2> QED BY <2>1, <2>2
<1>6. ASSUME NEW j \in Keys, Delete(j) PROVE Delete(k)
  <2>1. k = j
    BY <1>6 DEF Delete, Mapped, Without
  <2> QED BY <1>6, <2>1
<1> QED BY <1>1, <1>2, <1>3, <1>4, <1>5, <1>6 DEF QueueNext

\* Pop and Delete leave the entries of other sandboxes alone.
LEMMA PopKeepsOthers ==
    ASSUME NEW k \in Keys, NEW w \in activeQ, Pop(w), w.info.key # k, Queued(k)
    PROVE  Queued(k)'
BY DEF Pop, Queued, InActive, InUnschedulable, Item

LEMMA DeleteKeepsOthers ==
    ASSUME NEW k \in Keys, NEW j \in Keys, Delete(j), j # k, Queued(k)
    PROVE  Queued(k)'
BY DEF Delete, Mapped, Without, Queued, InActive, InUnschedulable, Item

\* Only Pop and Delete take the last entry of a sandbox out of the queue.
THEOREM NothingEverLost == QueueSpec => NothingLost
<1>1. QueueInv /\ [QueueNext]_qvars =>
        [\A k \in Keys : Queued(k) /\ ~ Queued(k)' =>
            (\E w \in activeQ : Pop(w)) \/ Delete(k)]_qvars
  BY StepKeepsQueued
<1> QED BY <1>1, InitInv, NextInv, PTL DEF QueueSpec, NothingLost

-----------------------------------------------------------------------------
(* The scheduler *)

\* The informer handlers' SandboxInfo is a legal argument of Add.
LEMMA EnqueueAdds ==
    ASSUME NEW k \in Keys, NEW sp \in Specs, Enqueue(k, sp)
    PROVE  /\ QueueNext
           /\ \E w \in activeQ' : w.info.key = k
           /\ outcome' = [outcome EXCEPT ![k] = "none"]
<1> DEFINE inf == [key |-> k, spec |-> sp, attempts |-> 1]
           new  == [info |-> inf, timestamp |-> clock]
<1>1. inf \in SandboxInfos /\ inf.key = k
  BY AttemptsAssumption DEF SandboxInfos
<1>2. Add(inf) /\ clock < MaxClock
  BY DEF Enqueue
<1>3. new \in activeQ' /\ new.info = inf
  BY <1>2 DEF Add
<1> HIDE DEF new, inf
<1> QED BY <1>1, <1>2, <1>3 DEF QueueNext, Enqueue

\* Every step of the scheduler is a step of the queue or leaves it alone.
LEMMA QueueStep ==
    ASSUME SchedulerTypeOK, [SchedulerNext]_vars
    PROVE  [QueueNext]_qvars
<1> USE DEF vars
<1>1. ASSUME NEW k \in Keys, NEW obj \in Present, NEW sp \in Specs,
             onSandboxAdd(k, obj, sp) \/ onSandboxUpdate(k, obj, sp)
      PROVE  [QueueNext]_qvars
  BY <1>1, EnqueueAdds DEF onSandboxAdd, onSandboxUpdate
<1>2. ASSUME NEW k \in Keys, onSandboxDelete(k) PROVE [QueueNext]_qvars
  BY <1>2 DEF onSandboxDelete, QueueNext
<1>3. CASE PopNext
  BY <1>3 DEF PopNext, QueueNext
<1>4. CASE handleSchedulingFailure
  <2>1. cycle.info \in SandboxInfos
    BY <1>4 DEF handleSchedulingFailure, SchedulerTypeOK, Cycles, Idle
  <2> QED BY <1>4, <2>1 DEF handleSchedulingFailure, QueueNext, Retryable
<1>5. CASE Flush \/ FlushBackoff \/ TimePasses
  BY <1>5 DEF Flush, FlushBackoff, TimePasses, QueueNext
<1>6. CASE UNCHANGED vars
  BY <1>6
<1>7. CASE ScheduleFails \/ (\E p \in Plugins : ReserveFails(p)) \/ PermitFails
           \/ ScheduleSucceeds \/ BindFails \/ BindSucceeds \/ Stop
  BY <1>7 DEF ScheduleFails, ReserveFails, PermitFails, ScheduleSucceeds, BindFails,
              BindSucceeds, Stop
<1> QED BY <1>1, <1>2, <1>3, <1>4, <1>5, <1>6, <1>7 DEF SchedulerNext, CycleStep

\* The inductive invariant of the scheduler: PendingAccountedFor needs MapSound
\* (a sandbox the Exists test finds really is in the heap).
SchedulerInv ==
    /\ SchedulerTypeOK
    /\ QueueInv
    /\ PendingAccountedFor

LEMMA TypeInit == SchedulerInit => SchedulerTypeOK /\ QueueInv
<1>1. SchedulerInit => QueueInv
  BY InitInv DEF SchedulerInit
<1>2. SchedulerInit /\ QueueInv => SchedulerTypeOK
  <2> SUFFICES ASSUME SchedulerInit, QueueInv PROVE SchedulerTypeOK
    OBVIOUS
  <2>1. metrics \in [Counters -> Nat]
    BY DEF SchedulerInit
  <2>2. reserved \in [Plugins -> SUBSET Keys]
    BY DEF SchedulerInit
  <2> QED BY <2>1, <2>2 DEF SchedulerInit, SchedulerTypeOK, QueueInv, Cycles, Outcomes
<1> QED BY <1>1, <1>2

\* The variables the scheduler adds to the queue's keep their types.
LEMMA TypeNext ==
    ASSUME SchedulerTypeOK, QueueTypeOK', [SchedulerNext]_vars
    PROVE  SchedulerTypeOK'
<1> USE DEF SchedulerTypeOK, vars, svars
<1>1. ASSUME NEW k \in Keys, NEW obj \in Present, NEW sp \in Specs,
             onSandboxAdd(k, obj, sp) \/ onSandboxUpdate(k, obj, sp)
      PROVE  SchedulerTypeOK'
  BY <1>1 DEF onSandboxAdd, onSandboxUpdate, Event, Enqueue, Outcomes
<1>2. ASSUME NEW k \in Keys, onSandboxDelete(k) PROVE SchedulerTypeOK'
  BY <1>2 DEF onSandboxDelete, Event
<1>3. CASE PopNext
  <2>1. cycle' \in Cycles
    BY <1>3 DEF PopNext, Cycles, Steps, QueueTypeOK, Wrappers
  <2> QED BY <1>3, <2>1 DEF PopNext
<1>4. ASSUME cycle # Idle PROVE
        /\ cycle.info \in SandboxInfos /\ cycle.info.key \in Keys
        /\ \A st \in Steps : [cycle EXCEPT !.step = st] \in Cycles
  BY <1>4 DEF Cycles, SandboxInfos
<1>5. ASSUME NEW st \in Steps, cycle.step = st PROVE cycle # Idle
  BY <1>5 DEF Steps, Idle
<1>6. CASE ScheduleFails \/ (\E p \in Plugins : ReserveFails(p)) \/ PermitFails
           \/ ScheduleSucceeds \/ BindFails
  <2>1. cycle # Idle
    BY <1>5, <1>6 DEF ScheduleFails, ReserveFails, PermitFails, ScheduleSucceeds, BindFails, Steps
  <2>2. cycle' \in Cycles
    BY <1>4, <1>6, <2>1 DEF ScheduleFails, ReserveFails, PermitFails, ScheduleSucceeds, BindFails,
                            Goto, Steps
  <2>3. reserved' \in [Plugins -> SUBSET Keys]
    BY <1>4, <1>6, <2>1 DEF ScheduleFails, ReserveFails, PermitFails, ScheduleSucceeds, BindFails,
                            RunReservePluginsUnreserve
  <2> QED BY <1>6, <2>2, <2>3 DEF ScheduleFails, ReserveFails, PermitFails, ScheduleSucceeds, BindFails
<1>7. CASE BindSucceeds
  <2>1. cycle.info.key \in Keys
    BY <1>4, <1>5, <1>7 DEF BindSucceeds, Steps
  <2> QED BY <1>7, <2>1 DEF BindSucceeds, Cycles, Outcomes, Record
<1>8. CASE handleSchedulingFailure
  <2>1. cycle.info.key \in Keys
    BY <1>4, <1>5, <1>8 DEF handleSchedulingFailure, Steps
  <2>2. metrics' \in [Counters -> Nat]
    BY <1>8 DEF handleSchedulingFailure, Record
  <2>3. outcome' \in [Keys -> Outcomes]
    BY <1>8, <2>1 DEF handleSchedulingFailure, Outcomes
  <2> QED BY <1>8, <2>2, <2>3 DEF handleSchedulingFailure, Cycles
<1>9. CASE Flush \/ FlushBackoff \/ TimePasses \/ Stop
  BY <1>9 DEF Flush, FlushBackoff, TimePasses, Stop
<1>10. CASE UNCHANGED vars
  BY <1>10
<1> QED BY <1>1, <1>2, <1>3, <1>6, <1>7, <1>8, <1>9, <1>10 DEF SchedulerNext, CycleStep
LEMMA TypeStep ==
    ASSUME SchedulerTypeOK, QueueInv, [SchedulerNext]_vars
    PROVE  SchedulerTypeOK' /\ QueueInv'
<1>1. QueueInv'
  BY QueueStep, NextInv
<1> QED BY <1>1, TypeNext DEF QueueInv

\* Every field of the scheduler keeps its type, however informer events, flushes
\* and the scheduling loop interleave.
THEOREM SchedulerTypeCorrect == SchedulerSpec => []SchedulerTypeOK
BY TypeInit, TypeStep, PTL DEF SchedulerSpec

\* The scheduler uses its queue only in ways the queue allows (refinement).
THEOREM SchedulerImplementsQueueSpec == SchedulerSpec => QueueSpec
<1>1. SchedulerInit => QueueInit
  BY DEF SchedulerInit
<1>2. SchedulerTypeOK /\ [SchedulerNext]_vars => [QueueNext]_qvars
  BY QueueStep
<1> QED BY <1>1, <1>2, SchedulerTypeCorrect, PTL DEF SchedulerSpec, QueueSpec

\* A queue step other than a Pop or the key's Delete keeps an accounted sandbox.
LEMMA AccountedStep ==
    ASSUME SchedulerTypeOK, QueueInv, PendingAccountedFor, [SchedulerNext]_vars
    PROVE  PendingAccountedFor'
<1> SUFFICES ASSUME NEW k \in Keys, sandboxes'[k] = "pending"
             PROVE  Queued(k)' \/ InFlight(k)' \/ outcome'[k] # "none"
  BY DEF PendingAccountedFor, Queued, InActive, InUnschedulable, Item, InFlight, Idle
<1>q. [QueueNext]_qvars
  BY QueueStep
<1>a. sandboxes[k] = "pending" => Queued(k) \/ InFlight(k) \/ outcome[k] # "none"
  BY DEF PendingAccountedFor
<1>1. ASSUME NEW j \in Keys, NEW obj \in Present, NEW sp \in Specs,
             onSandboxAdd(j, obj, sp) \/ onSandboxUpdate(j, obj, sp)
      PROVE  Queued(k)' \/ InFlight(k)' \/ outcome'[k] # "none"
  <2>1. CASE j = k
    <3>1. Enqueue(k, sp)
      BY <1>1, <2>1 DEF onSandboxAdd, onSandboxUpdate, Event, SchedulerTypeOK
    <3> QED BY <3>1, EnqueueAdds DEF Queued, InActive, Item
  <2>2. CASE j # k
    <3>1. sandboxes[k] = "pending" /\ outcome'[k] = outcome[k] /\ cycle' = cycle
      BY <1>1, <2>2 DEF onSandboxAdd, onSandboxUpdate, Event, Enqueue, SchedulerTypeOK
    <3>2. Queued(k) => Queued(k)'
      BY <1>1, <2>2
         DEF onSandboxAdd, onSandboxUpdate, Enqueue, Add, Without, qvars, Queued, InActive,
             InUnschedulable, Item
    <3> QED BY <3>1, <3>2, <1>a DEF InFlight
  <2> QED BY <2>1, <2>2
<1>2. ASSUME NEW j \in Keys, onSandboxDelete(j)
      PROVE  Queued(k)' \/ InFlight(k)' \/ outcome'[k] # "none"
  <2>1. j # k /\ sandboxes[k] = "pending" /\ outcome' = outcome /\ cycle' = cycle /\ Delete(j)
    BY <1>2 DEF onSandboxDelete, Event, SchedulerTypeOK
  <2> QED BY <2>1, <1>a, DeleteKeepsOthers DEF InFlight
<1>3. CASE PopNext
  <2>1. PICK w \in activeQ : Pop(w) /\ cycle' = [step |-> "scheduling", info |-> w.info]
    BY <1>3 DEF PopNext
  <2>2. sandboxes[k] = "pending" /\ outcome' = outcome /\ ~ InFlight(k)
    BY <1>3 DEF PopNext, InFlight
  <2>3. CASE w.info.key = k
    <3>1. cycle' # Idle /\ cycle'.info = w.info
      BY <2>1 DEF Idle
    <3> QED BY <3>1, <2>3 DEF InFlight, Idle
  <2>4. CASE w.info.key # k
    BY <2>1, <2>2, <2>4, <1>a, PopKeepsOthers
  <2> QED BY <2>3, <2>4
<1>4. CASE handleSchedulingFailure
  <2>1. cycle # Idle /\ cycle.info \in SandboxInfos /\ cycle.info.key \in Keys
    BY <1>4 DEF handleSchedulingFailure, Idle, SchedulerTypeOK, Cycles, SandboxInfos
  <2>2. sandboxes[k] = "pending" /\ cycle' = Idle
    BY <1>4 DEF handleSchedulingFailure
  <2>3. ASSUME cycle.info.key # k \/ Exists(k), Queued(k) PROVE Queued(k)'
    <3> USE DEF Queued, InActive, InUnschedulable, Item
    <3>1. CASE UNCHANGED <<activeQ, unschedulableQ>>
      BY <2>3, <3>1
    <3>2. CASE ~ UNCHANGED <<activeQ, unschedulableQ>>
      <4>1. /\ ~ Exists(cycle.info.key) /\ activeQ' = activeQ
            /\ \A u \in unschedulableQ : u.info.key # cycle.info.key => u \in unschedulableQ'
        BY <1>4, <3>2 DEF handleSchedulingFailure, AddUnschedulableIfNotPresent, Without, qvars
      <4> QED BY <2>3, <4>1
    <3> QED BY <3>1, <3>2
  <2>4. CASE cycle.info.key # k
    <3>1. outcome'[k] = outcome[k] /\ ~ InFlight(k)
      BY <1>4, <2>1, <2>4 DEF handleSchedulingFailure, InFlight, SchedulerTypeOK
    <3> QED BY <3>1, <2>2, <2>3, <2>4, <1>a
  <2>5. CASE cycle.info.key = k /\ cycle.info.attempts < maxSchedulingAttempts
    <3>1. AddUnschedulableIfNotPresent(cycle.info)
      BY <1>4, <2>5 DEF handleSchedulingFailure
    <3>2. CASE Exists(k)
      <4>1. \E w \in activeQ : w.info.key = k
        BY <3>2 DEF QueueInv, MapSound
      <4> QED BY <4>1, <2>3, <3>2 DEF Queued, InActive, Item
    <3>3. CASE ~ Exists(k)
      <4> DEFINE retry == [cycle.info EXCEPT !.attempts = @ + 1]
                 item  == [info |-> retry,
                           retryAfter |-> clock + calculateBackoff(retry.attempts)]
      <4>1. retry.key = k
        BY <2>1, <2>5, RetryInfo DEF Retryable
      <4>2. item \in unschedulableQ' /\ item.info = retry
        BY <3>1, <3>3, <2>5 DEF AddUnschedulableIfNotPresent
      <4> HIDE DEF item, retry
      <4> QED BY <4>1, <4>2 DEF Queued, InUnschedulable, Item
    <3> QED BY <3>2, <3>3
  <2>6. CASE cycle.info.key = k /\ ~ (cycle.info.attempts < maxSchedulingAttempts)
    BY <1>4, <2>6 DEF handleSchedulingFailure, SchedulerTypeOK
  <2> QED BY <2>4, <2>5, <2>6
<1>5. CASE BindSucceeds
  <2>1. cycle # Idle /\ sandboxes[k] = "pending" /\ UNCHANGED qvars
    BY <1>5 DEF BindSucceeds, Idle
  <2>2. outcome'[k] = "bound" \/ (outcome'[k] = outcome[k] /\ ~ InFlight(k))
    BY <1>5, <2>1 DEF BindSucceeds, InFlight, SchedulerTypeOK
  <2> QED BY <2>1, <2>2, <1>a DEF qvars, Queued, InActive, InUnschedulable, Item
<1>6. CASE ScheduleFails \/ (\E p \in Plugins : ReserveFails(p)) \/ PermitFails
           \/ ScheduleSucceeds \/ BindFails
  <2>1. cycle # Idle /\ cycle \in Cycles
    BY <1>6 DEF ScheduleFails, ReserveFails, PermitFails, ScheduleSucceeds, BindFails, Idle,
                SchedulerTypeOK
  <2>2. PICK st \in Steps : cycle' = [cycle EXCEPT !.step = st]
    BY <1>6 DEF ScheduleFails, ReserveFails, PermitFails, ScheduleSucceeds, BindFails, Goto, Steps
  <2>3. cycle' # Idle /\ cycle'.info = cycle.info
    BY <2>1, <2>2 DEF Cycles, Idle, Steps
  <2>4. UNCHANGED <<qvars, sandboxes, outcome>>
    BY <1>6 DEF ScheduleFails, ReserveFails, PermitFails, ScheduleSucceeds, BindFails
  <2> QED BY <2>1, <2>3, <2>4, <1>a DEF InFlight, Idle, qvars, Queued, InActive, InUnschedulable, Item
<1>7. CASE Flush \/ FlushBackoff \/ TimePasses
  <2>1. UNCHANGED svars
    BY <1>7 DEF Flush, FlushBackoff, TimePasses
  <2>2. Queued(k) => Queued(k)'
    <3>1. CASE Flush
      <4>1. ASSUME NEW u \in Due(clock) PROVE \E w \in activeQ' : w.info = u.info
        <5> DEFINE new == [info |-> u.info, timestamp |-> clock]
        <5>1. new \in activeQ' /\ new.info = u.info
          BY <3>1 DEF Flush, flushUnschedulable
        <5> HIDE DEF new
        <5> QED BY <5>1
      <4> QED BY <3>1, <4>1 DEF Flush, flushUnschedulable, Queued, InActive, InUnschedulable, Item
    <3>2. CASE FlushBackoff \/ TimePasses
      BY <3>2 DEF FlushBackoff, TimePasses, flushBackoff, Tick, Queued, InActive, InUnschedulable, Item
    <3> QED BY <1>7, <3>1, <3>2
  <2> QED BY <2>1, <2>2, <1>a DEF svars, InFlight
<1>8. CASE Stop \/ UNCHANGED vars
  BY <1>8, <1>a DEF Stop, vars, svars, qvars, InFlight, Queued, InActive, InUnschedulable, Item
<1> QED BY <1>1, <1>2, <1>3, <1>4, <1>5, <1>6, <1>7, <1>8 DEF SchedulerNext, CycleStep

\* No pending sandbox is forgotten: at any moment it is queued, in flight, bound,
\* or given up after its last attempt (scheduler.go, handleSchedulingFailure).
THEOREM NoPendingForgotten == SchedulerSpec => []PendingAccountedFor
<1>1. SchedulerInit => SchedulerInv
  BY TypeInit DEF SchedulerInit, SchedulerInv, PendingAccountedFor
<1>2. SchedulerInv /\ [SchedulerNext]_vars => SchedulerInv'
  BY TypeStep, AccountedStep DEF SchedulerInv
<1>3. SchedulerInv => PendingAccountedFor
  BY DEF SchedulerInv
<1> QED BY <1>1, <1>2, <1>3, PTL DEF SchedulerSpec
\* What a reserve plugin holds at any moment: bound sandboxes, and the one that
\* is just being bound.
ReservationsExplained ==
    \A p \in Plugins : \A k \in reserved[p] :
        binds[k] > 0 \/ (cycle.step = "binding" /\ InFlight(k))

LEMMA ReservationsStep ==
    ASSUME NumReserve <= 1, SchedulerTypeOK, ReservationsExplained, [SchedulerNext]_vars
    PROVE  ReservationsExplained'
<1> SUFFICES ASSUME NEW p \in Plugins, NEW k \in reserved'[p]
             PROVE  binds'[k] > 0 \/ (cycle'.step = "binding" /\ cycle' # Idle /\ cycle'.info.key = k)
  BY DEF ReservationsExplained, InFlight, Idle
<1>t. /\ reserved \in [Plugins -> SUBSET Keys] /\ binds \in [Keys -> Nat] /\ cycle \in Cycles
      /\ \A q \in Plugins : q = 1
      /\ k \in reserved[p] => binds[k] > 0 \/ (cycle.step = "binding" /\ InFlight(k))
  BY ReserveAssumption DEF SchedulerTypeOK, Plugins, ReservationsExplained
<1>1. CASE UNCHANGED <<cycle, reserved, binds>>
  BY <1>1, <1>t DEF InFlight
<1>2. CASE PopNext
  <2>1. k \in reserved[p] /\ binds' = binds /\ ~ InFlight(k)
    BY <1>2 DEF PopNext, InFlight
  <2> QED BY <2>1, <1>t
<1>3. CASE ScheduleFails \/ (\E q \in Plugins : ReserveFails(q))
  <2>1. k \in reserved[p]
    BY <1>3, <1>t DEF ScheduleFails, ReserveFails
  <2>2. cycle.step # "binding" /\ binds' = binds
    BY <1>3 DEF ScheduleFails, ReserveFails
  <2> QED BY <2>1, <2>2, <1>t
<1>4. CASE PermitFails \/ BindFails
  <2>1. cycle # Idle /\ binds' = binds /\ k \in reserved[p] /\ k # cycle.info.key
    BY <1>4, <1>t DEF PermitFails, BindFails, RunReservePluginsUnreserve, Idle
  <2> QED BY <2>1, <1>t DEF InFlight
<1>5. CASE ScheduleSucceeds
  <2>1. /\ cycle # Idle /\ cycle.step # "binding" /\ binds' = binds
        /\ k \in reserved[p] \/ k = cycle.info.key
    BY <1>5, <1>t DEF ScheduleSucceeds, Idle
  <2>2. cycle' # Idle /\ cycle'.step = "binding" /\ cycle'.info = cycle.info
    BY <1>5, <1>t, <2>1 DEF ScheduleSucceeds, Goto, Cycles, Idle
  <2> QED BY <2>1, <2>2, <1>t
<1>6. CASE BindSucceeds
  <2>1. cycle # Idle /\ k \in reserved[p] /\ k \in Keys
    BY <1>6, <1>t DEF BindSucceeds, Idle
  <2>2. binds'[k] = IF k = cycle.info.key THEN binds[k] + 1 ELSE binds[k]
    BY <1>6, <1>t, <2>1 DEF BindSucceeds
  <2> QED BY <2>1, <2>2, <1>t DEF InFlight
<1>7. CASE handleSchedulingFailure
  BY <1>7, <1>t DEF handleSchedulingFailure
<1>8. ASSUME NEW j \in Keys, NEW obj \in Present, NEW sp \in Specs,
             onSandboxAdd(j, obj, sp) \/ onSandboxUpdate(j, obj, sp)
      PROVE  UNCHANGED <<cycle, reserved, binds>>
  BY <1>8 DEF onSandboxAdd, onSandboxUpdate
<1>9. ASSUME NEW j \in Keys, onSandboxDelete(j) PROVE UNCHANGED <<cycle, reserved, binds>>
  BY <1>9 DEF onSandboxDelete
<1>10. CASE Flush \/ FlushBackoff \/ TimePasses \/ Stop \/ UNCHANGED vars
  <2>1. UNCHANGED <<cycle, reserved, binds>>
    BY <1>10 DEF Flush, FlushBackoff, TimePasses, Stop, vars, svars
  <2> QED BY <2>1, <1>1
<1> QED BY <1>1, <1>2, <1>3, <1>4, <1>5, <1>6, <1>7, <1>8, <1>9, <1>10
        DEF SchedulerNext, CycleStep

\* With at most one reserve plugin, as sandbox-scheduler is built (DefaultReserve),
\* a failed attempt leaves no reservation behind.
THEOREM ReservationsAlwaysBacked ==
    ASSUME NumReserve <= 1
    PROVE  SchedulerSpec => []ReservationsBacked
<1>1. SchedulerInit => ReservationsExplained
  BY DEF SchedulerInit, ReservationsExplained
<1>2. SchedulerTypeOK /\ ReservationsExplained /\ [SchedulerNext]_vars => ReservationsExplained'
  BY ReservationsStep
<1>3. ReservationsExplained => ReservationsBacked
  BY DEF ReservationsExplained, ReservationsBacked, InFlight
<1> QED BY <1>1, <1>2, <1>3, SchedulerTypeCorrect, PTL DEF SchedulerSpec

\* A scheduling cycle forgets no sandbox and, with at most one reserve plugin,
\* leaves no reservation behind, whatever informer events fall into it.
THEOREM SchedulerAlwaysSafe ==
    ASSUME NumReserve <= 1
    PROVE  SchedulerSpec => []SchedulerSafe
BY SchedulerTypeCorrect, NoPendingForgotten, ReservationsAlwaysBacked, PTL DEF SchedulerSafe

-----------------------------------------------------------------------------
(* The scheduler cache *)

\* A node that a sandbox can be bound to, or none.
Hosts == CacheNodes \cup {Unbound}

\* An event of the informer.
CacheEvents == [type : {"add", "update", "delete"}, node : Hosts]

\* The steps of the scheduler for one sandbox.
Phases == {"waits", "queued", "bound", "refused", "done"}

\* A binding is under way that the API server has not made.
Pending(s) == s \in CacheNodes \cup {"refused"}

\* Where a sandbox is at the API server (a), in the events under way (u), in the
\* cache (c), among the assumptions (m) and in the scheduler (s).
BoxTypes(a, u, c, m, s) ==
    /\ a \in Hosts \cup {Gone} /\ u \in Seq(CacheEvents) /\ c \in Hosts \cup {Gone}
    /\ m \in CacheNodes \cup {Gone} /\ s \in CacheNodes \cup Phases

\* The last event has what the API server has; a deletion is the last event, the
\* creation the first.
EventsFor(a, u, c, s) ==
    /\ Len(u) > 0 /\ a = Gone => u[Len(u)].type = "delete"
    /\ Len(u) > 0 /\ a # Gone => u[Len(u)].type # "delete" /\ u[Len(u)].node = a
    /\ \A i \in 1..Len(u) : u[i].type = "delete" => i = Len(u)
    /\ \A i \in 1..Len(u) : u[i].type = "add" => i = 1 /\ s = "waits" /\ u[i].node = Unbound
    /\ s = "waits" => c = Gone /\ (Len(u) = 0 => a = Gone) /\ (Len(u) > 0 => u[1].type = "add")
    /\ c = Gone /\ s # "waits" => Len(u) = 0 /\ a = Gone

\* Until the API server has made a binding, events and cache know of none but the assumed one.
BindingFor(a, u, c, m, s) ==
    /\ s \notin {"bound", "done"} => a \in {Unbound, Gone} /\ \A i \in 1..Len(u) : u[i].type = "update" => u[i].node = Unbound
    /\ s = "queued" => c \in {Unbound, Gone}
    /\ s \in {"waits", "queued", "done"} => m = Gone
    /\ Pending(s) /\ c # Gone => m # Gone /\ c \in {m, Unbound}
    /\ c = Gone /\ m # Gone => Pending(s)

\* When all events are delivered the cache has what the API server has.
CaughtUp(a, u, c, s) ==
    Len(u) = 0 => /\ ~ Pending(s) => c = a
                  /\ Pending(s) => (c = Gone <=> a = Gone)

\* What the API, the events under way, the cache and the scheduler say of one
\* sandbox fit together.
BoxFor(a, u, c, m, s) ==
    BoxTypes(a, u, c, m, s) /\ EventsFor(a, u, c, s) /\ BindingFor(a, u, c, m, s) /\ CaughtUp(a, u, c, s)

\* The maps are over the sandboxes.
CacheShapes ==
    /\ api = [b \in CacheBoxes |-> api[b]] /\ undelivered = [b \in CacheBoxes |-> undelivered[b]]
    /\ cached = [b \in CacheBoxes |-> cached[b]] /\ assumed = [b \in CacheBoxes |-> assumed[b]]
    /\ sched = [b \in CacheBoxes |-> sched[b]]

\* They fit together for every sandbox.
BoxesHold == CacheShapes /\ \A b \in CacheBoxes : BoxFor(api[b], undelivered[b], cached[b], assumed[b], sched[b])

\* A function on S.
Rows(f, S) == f = [k \in S |-> f[k]]

\* The list of a node names a sandbox.
OnList(ns, n, b) == b \in ns[n].Sandboxes

\* A node lists what the cache has there, or has only assumed there.
PlacedOn(c, m, n) == c = n \/ (c = Gone /\ m = n)

\* A sandbox is on the list of the node that the cache has it on, or that was
\* assumed for it after it left the cache.
ListsHold ==
    /\ Rows(nodes, DOMAIN nodes) /\ DOMAIN nodes \subseteq CacheNodes
    /\ \A b \in CacheBoxes : \A n \in DOMAIN nodes \ readded : OnList(nodes, n, b) <=> PlacedOn(cached[b], assumed[b], n)

\* The sandboxes that the cache has from the informer.
InCache(c) == {b \in CacheBoxes : c[b] # Gone}

\* A tenant's count is not above them.
TenantHolds == active # Gone => active \in Int /\ active <= Cardinality(InCache(cached))

\* The inductive invariant.
CacheInv == BoxesHold /\ ListsHold /\ TenantHolds

\* Events are delivered one at a time and in their order.
LEMMA EventsMove ==
    ASSUME NEW u \in Seq(CacheEvents)
    PROVE  /\ Len(u) \in Nat
           /\ Len(u) = 0 <=> u = <<>>
           /\ u # <<>> => /\ Tail(u) \in Seq(CacheEvents) /\ Len(Tail(u)) = Len(u) - 1 /\ Head(u) = u[1] /\ u[1] \in CacheEvents
                          /\ \A i \in 1..(Len(u) - 1) : Tail(u)[i] = u[i + 1]
           /\ \A e \in CacheEvents : /\ Append(u, e) \in Seq(CacheEvents) /\ Len(Append(u, e)) = Len(u) + 1
                                     /\ Append(u, e)[Len(u) + 1] = e
                                     /\ \A i \in 1..Len(u) : Append(u, e)[i] = u[i]
<1>1. Len(u) \in Nat /\ (Len(u) = 0 <=> u = <<>>)
  OBVIOUS
<1>2. u # <<>> => /\ Tail(u) \in Seq(CacheEvents) /\ Len(Tail(u)) = Len(u) - 1 /\ Head(u) = u[1] /\ u[1] \in CacheEvents
                  /\ \A i \in 1..(Len(u) - 1) : Tail(u)[i] = u[i + 1]
  OBVIOUS
<1>3. ASSUME NEW e \in CacheEvents
      PROVE  /\ Append(u, e) \in Seq(CacheEvents) /\ Len(Append(u, e)) = Len(u) + 1
             /\ Append(u, e)[Len(u) + 1] = e
             /\ \A i \in 1..Len(u) : Append(u, e)[i] = u[i]
  OBVIOUS
<1> QED
  BY <1>1, <1>2, <1>3

\* One sandbox changes.
LEMMA BoxChanges ==
    ASSUME BoxesHold, NEW b \in CacheBoxes, NEW a, NEW u, NEW c, NEW m, NEW s,
           api' = [api EXCEPT ![b] = a], undelivered' = [undelivered EXCEPT ![b] = u],
           cached' = [cached EXCEPT ![b] = c], assumed' = [assumed EXCEPT ![b] = m],
           sched' = [sched EXCEPT ![b] = s], BoxFor(a, u, c, m, s)
    PROVE  BoxesHold'
<1>1. CacheShapes'
  BY DEF BoxesHold, CacheShapes
<1>2. \A d \in CacheBoxes : d # b => /\ api'[d] = api[d] /\ undelivered'[d] = undelivered[d] /\ cached'[d] = cached[d]
                                     /\ assumed'[d] = assumed[d] /\ sched'[d] = sched[d]
  BY DEF BoxesHold, CacheShapes
<1>3. api'[b] = a /\ undelivered'[b] = u /\ cached'[b] = c /\ assumed'[b] = m /\ sched'[b] = s
  BY DEF BoxesHold, CacheShapes
<1> QED
  BY <1>1, <1>2, <1>3 DEF BoxesHold

\* The next event reaches the cache.
LEMMA DeliveredBox ==
    ASSUME NEW a, NEW u, NEW c, NEW m, NEW s, BoxFor(a, u, c, m, s), u # <<>>
    PROVE  /\ Head(u).type = "add" /\ c = Gone => BoxFor(a, Tail(u), Head(u).node, m, "queued")
           /\ Head(u).type = "update" /\ c # Gone => BoxFor(a, Tail(u), Head(u).node, m, s)
           /\ Head(u).type = "delete" /\ c # Gone => BoxFor(a, Tail(u), Gone, Gone, s)
<1> DEFINE v == Tail(u)
           e == Head(u)
<1>1. BoxTypes(a, u, c, m, s) /\ EventsFor(a, u, c, s) /\ BindingFor(a, u, c, m, s) /\ CaughtUp(a, u, c, s)
  BY DEF BoxFor
<1>2. /\ u \in Seq(CacheEvents) /\ Len(u) \in Nat /\ Len(u) > 0 /\ v \in Seq(CacheEvents) /\ Len(v) = Len(u) - 1
      /\ e = u[1] /\ u[1] \in CacheEvents /\ \A i \in 1..(Len(u) - 1) : v[i] = u[i + 1]
  BY <1>1, EventsMove DEF BoxTypes
<1> HIDE DEF v, e
<1>3. e.node \in Hosts /\ \A i \in 1..Len(v) : v[i] = u[i + 1] /\ i + 1 \in 1..Len(u) /\ i + 1 # 1
  BY <1>2 DEF CacheEvents
<1>4. Len(v) > 0 => v[Len(v)] = u[Len(u)]
  BY <1>2
<1>5. Len(v) = 0 => u[Len(u)] = e
  <2>1. Len(v) = 0 => Len(u) = 1
    BY <1>2
  <2> QED
    BY <1>2, <2>1
<1>6. \A i \in 1..Len(v) : v[i].type # "add" /\ (v[i].type = "delete" => i = Len(v))
  BY <1>1, <1>2, <1>3 DEF EventsFor
<1>7. /\ Len(v) > 0 /\ a = Gone => v[Len(v)].type = "delete"
      /\ Len(v) > 0 /\ a # Gone => v[Len(v)].type # "delete" /\ v[Len(v)].node = a
  BY <1>1, <1>2, <1>4 DEF EventsFor
<1>8. s \notin {"bound", "done"} => a \in {Unbound, Gone} /\ \A i \in 1..Len(v) : v[i].type = "update" => v[i].node = Unbound
  BY <1>1, <1>3 DEF BindingFor
<1>a. Unbound # Gone /\ Unbound \in Hosts /\ Gone \notin Hosts /\ "queued" \notin CacheNodes /\ "waits" \notin CacheNodes /\ "refused" \notin CacheNodes
  BY CacheAssumption DEF Hosts
<1>9. ASSUME e.type = "add", c = Gone PROVE BoxFor(a, v, e.node, m, "queued")
  <2>1. s = "waits" /\ e.node = Unbound /\ m = Gone
    BY <1>1, <1>2, <1>9 DEF EventsFor, BindingFor
  <2>2. BoxTypes(a, v, e.node, m, "queued")
    BY <1>1, <1>2, <1>3 DEF BoxTypes, Phases
  <2>3. EventsFor(a, v, e.node, "queued")
    BY <1>6, <1>7, <1>a, <2>1 DEF EventsFor
  <2>4. BindingFor(a, v, e.node, m, "queued")
    BY <1>8, <1>a, <2>1 DEF BindingFor, Pending
  <2>5. CaughtUp(a, v, e.node, "queued")
    <3>1. Len(v) = 0 => a # Gone /\ e.node = a
      BY <1>1, <1>2, <1>5, <1>9 DEF EventsFor
    <3> QED
      BY <1>a, <3>1 DEF CaughtUp, Pending
  <2> QED
    BY <2>2, <2>3, <2>4, <2>5 DEF BoxFor
<1>10. ASSUME e.type = "update", c # Gone PROVE BoxFor(a, v, e.node, m, s)
  <2>1. s # "waits"
    BY <1>1, <1>2, <1>10 DEF EventsFor
  <2>2. BoxTypes(a, v, e.node, m, s)
    BY <1>1, <1>2, <1>3 DEF BoxTypes
  <2>3. EventsFor(a, v, e.node, s)
    BY <1>3, <1>6, <1>7, <1>a, <2>1 DEF EventsFor
  <2>4. s \notin {"bound", "done"} => e.node = Unbound
    BY <1>1, <1>2, <1>10 DEF BindingFor
  <2>5. BindingFor(a, v, e.node, m, s)
    <3>1. Pending(s) => s \notin {"bound", "done"}
      BY CacheAssumption DEF Pending
    <3> QED
      BY <1>1, <1>3, <1>8, <1>10, <1>a, <2>4, <3>1 DEF BindingFor
  <2>6. CaughtUp(a, v, e.node, s)
    <3>1. Len(v) = 0 => a # Gone /\ e.node = a
      BY <1>1, <1>2, <1>5, <1>10 DEF EventsFor
    <3> QED
      BY <1>3, <1>a, <3>1 DEF CaughtUp
  <2> QED
    BY <2>2, <2>3, <2>5, <2>6 DEF BoxFor
<1>11. ASSUME e.type = "delete", c # Gone PROVE BoxFor(a, v, Gone, Gone, s)
  <2>1. s # "waits" /\ Len(u) = 1
    BY <1>1, <1>2, <1>11 DEF EventsFor
  <2>2. a = Gone /\ Len(v) = 0
    BY <1>1, <1>2, <1>11, <2>1 DEF EventsFor
  <2>3. BoxTypes(a, v, Gone, Gone, s)
    BY <1>1, <1>2 DEF BoxTypes
  <2>4. EventsFor(a, v, Gone, s)
    BY <1>2, <2>1, <2>2 DEF EventsFor
  <2>5. BindingFor(a, v, Gone, Gone, s)
    BY <2>2 DEF BindingFor
  <2>6. CaughtUp(a, v, Gone, s)
    BY <2>2 DEF CaughtUp
  <2> QED
    BY <2>3, <2>4, <2>5, <2>6 DEF BoxFor
<1> QED
  BY <1>9, <1>10, <1>11 DEF v, e

\* The API server appends an event e, and has a2 after it.
LEMMA ApiChangesBox ==
    ASSUME NEW a, NEW u, NEW c, NEW m, NEW s, BoxFor(a, u, c, m, s),
           NEW a2 \in Hosts \cup {Gone}, NEW e \in CacheEvents, NEW s2,
           \/ e.type = "add" /\ e.node = Unbound /\ a2 = Unbound /\ a = Gone /\ u = <<>> /\ s = "waits" /\ s2 = s
           \/ e.type = "update" /\ e.node = a2 /\ a2 = a /\ a # Gone /\ s2 = s
           \/ e.type = "update" /\ e.node = a2 /\ a2 # Gone /\ a = Unbound /\ s \in CacheNodes /\ s2 = "bound"
           \/ e.type = "delete" /\ a2 = Gone /\ a # Gone /\ s2 = s
    PROVE  BoxFor(a2, Append(u, e), c, m, s2)
<1> DEFINE v == Append(u, e)
<1>1. BoxTypes(a, u, c, m, s) /\ EventsFor(a, u, c, s) /\ BindingFor(a, u, c, m, s) /\ CaughtUp(a, u, c, s)
  BY DEF BoxFor
<1>2. /\ u \in Seq(CacheEvents) /\ Len(u) \in Nat /\ v \in Seq(CacheEvents) /\ Len(v) = Len(u) + 1 /\ (Len(u) = 0 <=> u = <<>>)
      /\ v[Len(u) + 1] = e /\ \A i \in 1..Len(u) : v[i] = u[i]
  BY <1>1, EventsMove DEF BoxTypes
<1> HIDE DEF v
<1>a. /\ Unbound # Gone /\ Unbound \in Hosts /\ Gone \notin Hosts /\ \A t \in Phases : t \notin CacheNodes
      /\ "bound" \in Phases /\ "waits" \in Phases
  BY CacheAssumption DEF Hosts, Phases
<1>3. BoxTypes(a2, v, c, m, s2)
  BY <1>1, <1>2, <1>a DEF BoxTypes
<1>4. /\ a2 = Gone => e.type = "delete"
      /\ a2 # Gone => e.type # "delete" /\ e.node = a2
  BY <1>a
<1>5. \A i \in 1..Len(u) : v[i].type # "delete"
  <2>1. Len(u) > 0 => a # Gone
    BY <1>2, <1>a
  <2>2. Len(u) > 0 => u[Len(u)].type # "delete"
    BY <1>1, <2>1 DEF EventsFor
  <2>3. ASSUME NEW i \in 1..Len(u) PROVE u[i].type # "delete"
    <3>1. Len(u) > 0
      BY <1>2
    <3>2. u[i].type = "delete" => i = Len(u)
      BY <1>1 DEF EventsFor
    <3> QED
      BY <2>2, <3>1, <3>2
  <2> QED
    BY <1>2, <2>3
<1>6. \A i \in 1..Len(v) : v[i].type = "delete" => i = Len(v)
  BY <1>2, <1>5
<1>7. \A i \in 1..Len(v) : v[i].type = "add" => i = 1 /\ s2 = "waits" /\ v[i].node = Unbound
  <2>1. \A i \in 1..Len(u) : v[i].type = "add" => i = 1 /\ s2 = "waits" /\ v[i].node = Unbound
    BY <1>1, <1>2, <1>a DEF EventsFor
  <2>2. e.type = "add" => Len(u) + 1 = 1 /\ s2 = "waits" /\ e.node = Unbound
    BY <1>2
  <2> QED
    BY <1>2, <2>1, <2>2
<1>8. s2 = "waits" => c = Gone /\ v[1].type = "add"
  <2>1. ASSUME s2 = "waits" PROVE s = "waits" /\ c = Gone
    BY <1>1, <2>1 DEF EventsFor
  <2>2. CASE Len(u) = 0
    BY <1>1, <1>2, <1>a, <2>1, <2>2 DEF EventsFor
  <2>3. CASE Len(u) > 0
    BY <1>1, <1>2, <2>1, <2>3 DEF EventsFor
  <2> QED
    BY <1>2, <2>1, <2>2, <2>3
<1>9. ~ (c = Gone /\ s2 # "waits")
  BY <1>1, <1>a DEF EventsFor
<1>10. EventsFor(a2, v, c, s2)
  BY <1>2, <1>4, <1>6, <1>7, <1>8, <1>9 DEF EventsFor
<1>11. BindingFor(a2, v, c, m, s2)
  <2>1. CASE s2 = s
    <3>1. s \notin {"bound", "done"} => a2 \in {Unbound, Gone} /\ \A i \in 1..Len(v) : v[i].type = "update" => v[i].node = Unbound
      <4>1. s \notin {"bound", "done"} => a2 \in {Unbound, Gone} /\ (e.type = "update" => e.node = Unbound)
        BY <1>1, <1>a, <2>1 DEF BindingFor
      <4>2. s \notin {"bound", "done"} => \A i \in 1..Len(u) : v[i].type = "update" => v[i].node = Unbound
        BY <1>1, <1>2 DEF BindingFor
      <4> QED
        BY <1>2, <4>1, <4>2
    <3> QED
      BY <1>1, <2>1, <3>1 DEF BindingFor
  <2>2. CASE s2 = "bound" /\ s \in CacheNodes
    <3>1. ~ Pending(s2) /\ c # Gone
      BY <1>9, <1>a, <2>2, CacheAssumption DEF Pending
    <3> QED
      BY <2>2, <3>1 DEF BindingFor
  <2> QED
    BY <2>1, <2>2
<1>12. CaughtUp(a2, v, c, s2)
  BY <1>2 DEF CaughtUp
<1> QED
  BY <1>3, <1>10, <1>11, <1>12 DEF BoxFor, v

\* The scheduler goes on.
LEMMA SchedulesBox ==
    ASSUME NEW a, NEW u, NEW c, NEW m, NEW s, BoxFor(a, u, c, m, s)
    PROVE  /\ \A n \in CacheNodes : s = "queued" => BoxFor(a, u, IF c = Gone THEN Gone ELSE n, n, n)
           /\ s \in CacheNodes => BoxFor(a, u, c, m, "refused")
           /\ s = "bound" => BoxFor(a, u, c, Gone, "done")
           /\ s = "refused" /\ m = Gone => BoxFor(a, u, c, m, IF a = Gone THEN "done" ELSE "queued")
           /\ s = "refused" /\ m # Gone => BoxFor(a, u, IF c = Gone THEN Gone ELSE Unbound, Gone, IF a = Gone THEN "done" ELSE "queued")
<1>1. BoxTypes(a, u, c, m, s) /\ EventsFor(a, u, c, s) /\ BindingFor(a, u, c, m, s) /\ CaughtUp(a, u, c, s)
  BY DEF BoxFor
<1>a. /\ Unbound # Gone /\ Unbound \in Hosts /\ Gone \notin Hosts /\ CacheNodes \subseteq Hosts /\ \A t \in Phases : t \notin CacheNodes
      /\ Phases = {"waits", "queued", "bound", "refused", "done"}
  BY CacheAssumption DEF Hosts, Phases
<1>b. /\ \A n \in CacheNodes : Pending(n)
      /\ Pending("refused") /\ ~ Pending("queued") /\ ~ Pending("done") /\ ~ Pending("bound")
  BY <1>a DEF Pending
<1>2. ASSUME NEW n \in CacheNodes, s = "queued" PROVE BoxFor(a, u, IF c = Gone THEN Gone ELSE n, n, n)
  <2> DEFINE d == IF c = Gone THEN Gone ELSE n
  <2>1. (d = Gone <=> c = Gone) /\ d \in {n, Gone} /\ n # Gone /\ n \notin {"waits", "queued", "bound", "done", "refused"}
    BY <1>a
  <2> HIDE DEF d
  <2>2. BoxTypes(a, u, d, n, n)
    BY <1>1, <1>a, <2>1 DEF BoxTypes
  <2>3. EventsFor(a, u, d, n)
    BY <1>1, <1>2, <2>1 DEF EventsFor
  <2>4. BindingFor(a, u, d, n, n)
    BY <1>1, <1>2, <1>a, <1>b, <2>1 DEF BindingFor
  <2>5. CaughtUp(a, u, d, n)
    BY <1>1, <1>2, <1>b, <2>1 DEF CaughtUp
  <2> QED
    BY <2>2, <2>3, <2>4, <2>5 DEF BoxFor, d
<1>3. ASSUME s \in CacheNodes PROVE BoxFor(a, u, c, m, "refused")
  <2>1. s \notin {"waits", "queued", "bound", "done", "refused"}
    BY <1>3, <1>a
  <2>2. BoxTypes(a, u, c, m, "refused")
    BY <1>1, <1>a DEF BoxTypes
  <2>3. EventsFor(a, u, c, "refused")
    BY <1>1, <2>1 DEF EventsFor
  <2>4. BindingFor(a, u, c, m, "refused")
    BY <1>1, <1>3, <1>b, <2>1 DEF BindingFor
  <2>5. CaughtUp(a, u, c, "refused")
    BY <1>1, <1>3, <1>b DEF CaughtUp
  <2> QED
    BY <2>2, <2>3, <2>4, <2>5 DEF BoxFor
<1>4. ASSUME s = "bound" PROVE BoxFor(a, u, c, Gone, "done")
  <2>2. BoxTypes(a, u, c, Gone, "done")
    BY <1>1, <1>a DEF BoxTypes
  <2>3. EventsFor(a, u, c, "done")
    BY <1>1, <1>4 DEF EventsFor
  <2>4. BindingFor(a, u, c, Gone, "done")
    BY <1>b DEF BindingFor
  <2>5. CaughtUp(a, u, c, "done")
    BY <1>1, <1>4, <1>b DEF CaughtUp
  <2> QED
    BY <2>2, <2>3, <2>4, <2>5 DEF BoxFor
<1>5. ASSUME s = "refused", NEW d, d = Gone <=> c = Gone, d \in {Unbound, Gone}, NEW t, t = IF a = Gone THEN "done" ELSE "queued"
      PROVE  BoxFor(a, u, d, Gone, t)
  <2>1. t \in {"done", "queued"} /\ (t = "queued" <=> a # Gone) /\ ~ Pending(t)
    BY <1>5, <1>b
  <2>2. BoxTypes(a, u, d, Gone, t)
    BY <1>1, <1>5, <1>a, <2>1 DEF BoxTypes
  <2>3. EventsFor(a, u, d, t)
    BY <1>1, <1>5, <2>1 DEF EventsFor
  <2>4. BindingFor(a, u, d, Gone, t)
    BY <1>1, <1>5, <2>1 DEF BindingFor
  <2>5. CaughtUp(a, u, d, t)
    BY <1>1, <1>5, <1>a, <1>b, <2>1 DEF CaughtUp, BindingFor, EventsFor
  <2> QED
    BY <2>2, <2>3, <2>4, <2>5 DEF BoxFor
<1>6. ASSUME s = "refused", m = Gone PROVE c = Gone
  BY <1>1, <1>6, <1>b DEF BindingFor
<1>7. ASSUME s = "refused", m = Gone PROVE BoxFor(a, u, c, m, IF a = Gone THEN "done" ELSE "queued")
  BY <1>5, <1>6, <1>7
<1>8. ASSUME s = "refused" PROVE BoxFor(a, u, IF c = Gone THEN Gone ELSE Unbound, Gone, IF a = Gone THEN "done" ELSE "queued")
  BY <1>5, <1>8, <1>a
<1> QED
  BY <1>2, <1>3, <1>4, <1>7, <1>8

\* The parts of a sandbox's state, and what each step makes of them.
LEMMA BoxesStep ==
    ASSUME BoxesHold, NEW b \in CacheBoxes, DeliverEvent(b) \/ ScheduleStep(b) \/ ApiStep(b)
    PROVE  BoxesHold'
<1> DEFINE a == api[b]
           u == undelivered[b]
           c == cached[b]
           m == assumed[b]
           s == sched[b]
<1>1. BoxFor(a, u, c, m, s) /\ BoxTypes(a, u, c, m, s)
  BY DEF BoxesHold, BoxFor
<1>2. /\ api = [api EXCEPT ![b] = a] /\ undelivered = [undelivered EXCEPT ![b] = u] /\ cached = [cached EXCEPT ![b] = c]
      /\ assumed = [assumed EXCEPT ![b] = m] /\ sched = [sched EXCEPT ![b] = s]
  BY DEF BoxesHold, CacheShapes
<1> HIDE DEF a, u, c, m, s
<1>3. CASE DeliverEvent(b)
  <2>1. u # <<>> /\ undelivered' = [undelivered EXCEPT ![b] = Tail(u)] /\ api' = api
    BY <1>3 DEF DeliverEvent, u
  <2> DEFINE e == Head(u)
  <2>2. \/ /\ e.type = "add" /\ c = Gone /\ cached' = [cached EXCEPT ![b] = e.node] /\ assumed' = assumed
           /\ sched' = [sched EXCEPT ![b] = "queued"]
        \/ /\ e.type = "update" /\ c # Gone /\ cached' = [cached EXCEPT ![b] = e.node] /\ assumed' = assumed /\ sched' = sched
        \/ /\ e.type = "delete" /\ c # Gone /\ cached' = [cached EXCEPT ![b] = Gone] /\ assumed' = [assumed EXCEPT ![b] = Gone]
           /\ sched' = sched
    BY <1>3 DEF DeliverEvent, AddSandbox, UpdateSandbox, DeleteSandbox, u, c
  <2>3. /\ e.type = "add" /\ c = Gone => BoxFor(a, Tail(u), e.node, m, "queued")
        /\ e.type = "update" /\ c # Gone => BoxFor(a, Tail(u), e.node, m, s)
        /\ e.type = "delete" /\ c # Gone => BoxFor(a, Tail(u), Gone, Gone, s)
    BY <1>1, <2>1, DeliveredBox
  <2> HIDE DEF e
  <2>4. api' = [api EXCEPT ![b] = a]
    BY <1>2, <2>1
  <2>5. CASE e.type = "add" /\ c = Gone /\ cached' = [cached EXCEPT ![b] = e.node] /\ assumed' = assumed /\ sched' = [sched EXCEPT ![b] = "queued"]
    <3>1. assumed' = [assumed EXCEPT ![b] = m] /\ BoxFor(a, Tail(u), e.node, m, "queued")
      BY <1>2, <2>3, <2>5
    <3> QED
      BY <2>1, <2>4, <2>5, <3>1, BoxChanges
  <2>6. CASE e.type = "update" /\ c # Gone /\ cached' = [cached EXCEPT ![b] = e.node] /\ assumed' = assumed /\ sched' = sched
    <3>1. assumed' = [assumed EXCEPT ![b] = m] /\ sched' = [sched EXCEPT ![b] = s] /\ BoxFor(a, Tail(u), e.node, m, s)
      BY <1>2, <2>3, <2>6
    <3> QED
      BY <2>1, <2>4, <2>6, <3>1, BoxChanges
  <2>7. CASE e.type = "delete" /\ c # Gone /\ cached' = [cached EXCEPT ![b] = Gone] /\ assumed' = [assumed EXCEPT ![b] = Gone] /\ sched' = sched
    <3>1. sched' = [sched EXCEPT ![b] = s] /\ BoxFor(a, Tail(u), Gone, Gone, s)
      BY <1>2, <2>3, <2>7
    <3> QED
      BY <2>1, <2>4, <2>7, <3>1, BoxChanges
  <2> QED
    BY <2>2, <2>5, <2>6, <2>7
<1>4. ASSUME NEW e \in CacheEvents, NEW a2 \in Hosts \cup {Gone}, NEW s2,
             api' = [api EXCEPT ![b] = a2], undelivered' = [undelivered EXCEPT ![b] = Append(u, e)],
             sched' = [sched EXCEPT ![b] = s2], cached' = cached, assumed' = assumed,
             \/ e.type = "add" /\ e.node = Unbound /\ a2 = Unbound /\ a = Gone /\ u = <<>> /\ s = "waits" /\ s2 = s
             \/ e.type = "update" /\ e.node = a2 /\ a2 = a /\ a # Gone /\ s2 = s
             \/ e.type = "update" /\ e.node = a2 /\ a2 # Gone /\ a = Unbound /\ s \in CacheNodes /\ s2 = "bound"
             \/ e.type = "delete" /\ a2 = Gone /\ a # Gone /\ s2 = s
      PROVE  BoxesHold'
  <2>1. BoxFor(a2, Append(u, e), c, m, s2)
    BY <1>1, <1>4, ApiChangesBox
  <2> QED
    BY <1>2, <1>4, <2>1, BoxChanges
<1>5. CASE ApiCreate(b)
  <2> DEFINE e == [type |-> "add", node |-> Unbound]
  <2>1. e \in CacheEvents /\ e.type = "add" /\ e.node = Unbound
    BY DEF CacheEvents, Hosts
  <2>2. /\ a = Gone /\ s = "waits" /\ u = <<>> /\ api' = [api EXCEPT ![b] = Unbound] /\ sched' = sched
        /\ undelivered' = [undelivered EXCEPT ![b] = Append(u, e)] /\ cached' = cached /\ assumed' = assumed
    BY <1>5 DEF ApiCreate, a, s, u
  <2> HIDE DEF e
  <2> QED
    BY <1>2, <1>4, <2>1, <2>2 DEF Hosts
<1>6. CASE ApiTouch(b)
  <2> DEFINE e == [type |-> "update", node |-> a]
  <2>1. /\ a # Gone /\ api' = api /\ sched' = sched
        /\ undelivered' = [undelivered EXCEPT ![b] = Append(u, e)] /\ cached' = cached /\ assumed' = assumed
    BY <1>6 DEF ApiTouch, a, u
  <2>2. e \in CacheEvents /\ e.type = "update" /\ e.node = a
    BY <1>1, <2>1 DEF CacheEvents, BoxTypes
  <2> HIDE DEF e
  <2> QED
    BY <1>1, <1>2, <1>4, <2>1, <2>2 DEF BoxTypes
<1>7. CASE ApiDelete(b)
  <2> DEFINE e == [type |-> "delete", node |-> a]
  <2>1. /\ a # Gone /\ api' = [api EXCEPT ![b] = Gone] /\ sched' = sched
        /\ undelivered' = [undelivered EXCEPT ![b] = Append(u, e)] /\ cached' = cached /\ assumed' = assumed
    BY <1>7 DEF ApiDelete, a, u
  <2>2. e \in CacheEvents /\ e.type = "delete"
    BY <1>1, <2>1 DEF CacheEvents, BoxTypes
  <2> HIDE DEF e
  <2> QED
    BY <1>2, <1>4, <2>1, <2>2
<1>8. CASE ApiBind(b)
  <2> DEFINE e == [type |-> "update", node |-> s]
  <2>1. /\ a = Unbound /\ s \in CacheNodes /\ api' = [api EXCEPT ![b] = s] /\ sched' = [sched EXCEPT ![b] = "bound"]
        /\ undelivered' = [undelivered EXCEPT ![b] = Append(u, e)] /\ cached' = cached /\ assumed' = assumed
    BY <1>8 DEF ApiBind, a, u, s
  <2>2. e \in CacheEvents /\ e.type = "update" /\ e.node = s /\ s # Gone /\ s \in Hosts
    BY <2>1, CacheAssumption DEF CacheEvents, Hosts
  <2> HIDE DEF e
  <2> QED
    BY <1>4, <2>1, <2>2
<1>9. ASSUME NEW n \in CacheNodes, AssumeSandbox(b, n) PROVE BoxesHold'
  <2>1. /\ s = "queued" /\ cached' = [cached EXCEPT ![b] = IF c = Gone THEN Gone ELSE n] /\ assumed' = [assumed EXCEPT ![b] = n]
        /\ sched' = [sched EXCEPT ![b] = n] /\ api' = api /\ undelivered' = undelivered
    BY <1>9 DEF AssumeSandbox, s, c
  <2>2. BoxFor(a, u, IF c = Gone THEN Gone ELSE n, n, n)
    BY <1>1, <2>1, SchedulesBox
  <2> QED
    BY <1>2, <2>1, <2>2, BoxChanges
<1>10. CASE ApiRefuses(b)
  <2>1. s \in CacheNodes /\ sched' = [sched EXCEPT ![b] = "refused"] /\ api' = api /\ undelivered' = undelivered /\ cached' = cached /\ assumed' = assumed
    BY <1>10 DEF ApiRefuses, s
  <2>2. BoxFor(a, u, c, m, "refused")
    BY <1>1, <2>1, SchedulesBox
  <2>3. /\ api' = [api EXCEPT ![b] = a] /\ undelivered' = [undelivered EXCEPT ![b] = u] /\ cached' = [cached EXCEPT ![b] = c]
        /\ assumed' = [assumed EXCEPT ![b] = m] /\ sched' = [sched EXCEPT ![b] = "refused"]
    BY <1>2, <2>1
  <2> QED
    BY <2>2, <2>3, BoxChanges
<1>11. CASE ConfirmAssumeSandbox(b)
  <2>1. s = "bound" /\ sched' = [sched EXCEPT ![b] = "done"] /\ assumed' = [assumed EXCEPT ![b] = Gone] /\ api' = api /\ undelivered' = undelivered /\ cached' = cached
    BY <1>11 DEF ConfirmAssumeSandbox, s
  <2>2. BoxFor(a, u, c, Gone, "done")
    BY <1>1, <2>1, SchedulesBox
  <2>3. /\ api' = [api EXCEPT ![b] = a] /\ undelivered' = [undelivered EXCEPT ![b] = u] /\ cached' = [cached EXCEPT ![b] = c]
        /\ assumed' = [assumed EXCEPT ![b] = Gone] /\ sched' = [sched EXCEPT ![b] = "done"]
    BY <1>2, <2>1
  <2> QED
    BY <2>2, <2>3, BoxChanges
<1>12. CASE ForgetSandbox(b)
  <2> DEFINE t == IF a = Gone THEN "done" ELSE "queued"
  <2>1. /\ s = "refused" /\ sched' = [sched EXCEPT ![b] = t] /\ api' = api /\ undelivered' = undelivered
        /\ \/ m = Gone /\ cached' = cached /\ assumed' = assumed
           \/ /\ m # Gone /\ assumed' = [assumed EXCEPT ![b] = Gone]
              /\ cached' = [cached EXCEPT ![b] = IF c = Gone THEN Gone ELSE Unbound]
    BY <1>12 DEF ForgetSandbox, s, a, m, c
  <2>2. /\ m = Gone => BoxFor(a, u, c, m, t)
        /\ m # Gone => BoxFor(a, u, IF c = Gone THEN Gone ELSE Unbound, Gone, t)
    BY <1>1, <2>1, SchedulesBox
  <2> HIDE DEF t
  <2> QED
    BY <1>2, <2>1, <2>2, BoxChanges
<1> QED
  BY <1>3, <1>5, <1>6, <1>7, <1>8, <1>9, <1>10, <1>11, <1>12 DEF ScheduleStep, ApiStep

\* What NodeAdds does to the lists.
LEMMA ListAdds ==
    ASSUME NEW ns, Rows(ns, DOMAIN ns), NEW n, NEW b, NEW r, r = NodeAdds(ns, n, b)
    PROVE  /\ DOMAIN r = DOMAIN ns /\ Rows(r, DOMAIN r)
           /\ \A k \in DOMAIN ns : \A d : OnList(r, k, d) <=> OnList(ns, k, d) \/ (k = n /\ d = b)
<1>1. CASE n \notin DOMAIN ns
  <2>1. r = ns
    BY <1>1 DEF NodeAdds
  <2> QED
    BY <1>1, <2>1
<1>2. CASE n \in DOMAIN ns
  <2> DEFINE x == [Sandboxes |-> ns[n].Sandboxes \cup {b}, SandboxCount |-> ns[n].SandboxCount + 1]
  <2>1. r = [ns EXCEPT ![n] = x]
    BY <1>2 DEF NodeAdds
  <2>2. x.Sandboxes = ns[n].Sandboxes \cup {b}
    OBVIOUS
  <2> HIDE DEF x
  <2>3. DOMAIN r = DOMAIN ns /\ r[n] = x /\ \A k \in DOMAIN ns : k # n => r[k] = ns[k]
    BY <1>2, <2>1 DEF Rows
  <2>4. Rows(r, DOMAIN r)
    BY <2>1, <2>3 DEF Rows
  <2> QED
    BY <2>2, <2>3, <2>4 DEF OnList
<1> QED
  BY <1>1, <1>2

\* What NodeDrops does to the lists.
LEMMA ListDrops ==
    ASSUME NEW ns, Rows(ns, DOMAIN ns), NEW n, NEW b, NEW r, r = NodeDrops(ns, n, b)
    PROVE  /\ DOMAIN r = DOMAIN ns /\ Rows(r, DOMAIN r)
           /\ \A k \in DOMAIN ns : \A d : OnList(r, k, d) <=> OnList(ns, k, d) /\ ~ (k = n /\ d = b)
<1>1. CASE n \notin DOMAIN ns
  <2>1. r = ns
    BY <1>1 DEF NodeDrops
  <2> QED
    BY <1>1, <2>1
<1>2. CASE n \in DOMAIN ns
  <2> DEFINE x == [Sandboxes |-> ns[n].Sandboxes \ {b}, SandboxCount |-> ns[n].SandboxCount - 1]
  <2>1. r = [ns EXCEPT ![n] = x]
    BY <1>2 DEF NodeDrops
  <2>2. x.Sandboxes = ns[n].Sandboxes \ {b}
    OBVIOUS
  <2> HIDE DEF x
  <2>3. DOMAIN r = DOMAIN ns /\ r[n] = x /\ \A k \in DOMAIN ns : k # n => r[k] = ns[k]
    BY <1>2, <2>1 DEF Rows
  <2>4. Rows(r, DOMAIN r)
    BY <2>1, <2>3 DEF Rows
  <2> QED
    BY <2>2, <2>3, <2>4 DEF OnList
<1> QED
  BY <1>1, <1>2

\* The place of b changes to (c, m), and the lists with it.
LEMMA ListsChange ==
    ASSUME ListsHold, CacheShapes, NEW b \in CacheBoxes, NEW c, NEW m, NEW r, nodes' = r,
           cached' = [cached EXCEPT ![b] = c], assumed' = [assumed EXCEPT ![b] = m], readded' = readded,
           DOMAIN r = DOMAIN nodes, Rows(r, DOMAIN r),
           \A k \in DOMAIN nodes : \A d \in CacheBoxes : d # b => (OnList(r, k, d) <=> OnList(nodes, k, d)),
           \A k \in DOMAIN nodes \ readded : OnList(r, k, b) <=> PlacedOn(c, m, k)
    PROVE  ListsHold'
<1>1. cached'[b] = c /\ assumed'[b] = m /\ \A d \in CacheBoxes : d # b => cached'[d] = cached[d] /\ assumed'[d] = assumed[d]
  BY DEF CacheShapes
<1>2. ASSUME NEW d \in CacheBoxes, NEW k \in DOMAIN nodes \ readded PROVE OnList(r, k, d) <=> PlacedOn(cached'[d], assumed'[d], k)
  BY <1>1 DEF ListsHold
<1> QED
  BY <1>2 DEF ListsHold

\* The lists follow what the cache has.
LEMMA ListsStep ==
    ASSUME BoxesHold, ListsHold, NEW b \in CacheBoxes, DeliverEvent(b) \/ ScheduleStep(b) \/ ApiStep(b)
    PROVE  ListsHold'
<1> DEFINE c == cached[b]
           m == assumed[b]
           s == sched[b]
           e == Head(undelivered[b])
           v == e.node
           w == IF c \notin {Unbound, v} THEN NodeDrops(nodes, c, b) ELSE nodes
<1>1. BoxFor(api[b], undelivered[b], c, m, s) /\ CacheShapes
  BY DEF BoxesHold
<1>2. /\ Rows(nodes, DOMAIN nodes) /\ DOMAIN nodes \subseteq CacheNodes
      /\ \A k \in DOMAIN nodes \ readded : OnList(nodes, k, b) <=> PlacedOn(c, m, k)
  BY DEF ListsHold
<1>a. Unbound # Gone /\ Gone \notin CacheNodes /\ Unbound \notin CacheNodes
  BY CacheAssumption
<1>b. cached = [cached EXCEPT ![b] = c] /\ assumed = [assumed EXCEPT ![b] = m]
  BY <1>1 DEF CacheShapes
<1>c. c \in CacheNodes \cup {Unbound, Gone} /\ m \in CacheNodes \cup {Gone}
  BY <1>1 DEF BoxFor, BoxTypes, Hosts
<1>3. ASSUME NEW c2, NEW m2, cached' = [cached EXCEPT ![b] = c2], assumed' = [assumed EXCEPT ![b] = m2], readded' = readded,
             nodes' = nodes, \A k \in CacheNodes : PlacedOn(c, m, k) <=> PlacedOn(c2, m2, k)
      PROVE  ListsHold'
  BY <1>1, <1>2, <1>3, ListsChange
<1> DEFINE Adds(c2, m2, n) ==
             /\ cached' = [cached EXCEPT ![b] = c2] /\ assumed' = [assumed EXCEPT ![b] = m2] /\ readded' = readded
             /\ nodes' = NodeAdds(nodes, n, b) /\ \A k \in CacheNodes : PlacedOn(c, m, k) \/ k = n <=> PlacedOn(c2, m2, k)
<1>4. ASSUME NEW c2, NEW m2, NEW n, Adds(c2, m2, n)
      PROVE  ListsHold'
  <2>1. /\ DOMAIN nodes' = DOMAIN nodes /\ Rows(nodes', DOMAIN nodes')
        /\ \A k \in DOMAIN nodes : \A d : OnList(nodes', k, d) <=> OnList(nodes, k, d) \/ (k = n /\ d = b)
    BY <1>2, <1>4, ListAdds
  <2>2. \A k \in DOMAIN nodes : \A d \in CacheBoxes : d # b => (OnList(nodes', k, d) <=> OnList(nodes, k, d))
    BY <2>1
  <2>3. \A k \in DOMAIN nodes \ readded : OnList(nodes', k, b) <=> PlacedOn(c2, m2, k)
    BY <1>2, <1>4, <2>1
  <2> HIDE DEF c, m
  <2> QED
    BY <1>1, <1>4, <2>1, <2>2, <2>3, ListsChange
<1>5. ASSUME NEW c2, NEW m2, cached' = [cached EXCEPT ![b] = c2], assumed' = [assumed EXCEPT ![b] = m2], readded' = readded,
             NEW n, nodes' = NodeDrops(nodes, n, b), \A k \in CacheNodes : PlacedOn(c, m, k) /\ k # n <=> PlacedOn(c2, m2, k)
      PROVE  ListsHold'
  <2>1. /\ DOMAIN nodes' = DOMAIN nodes /\ Rows(nodes', DOMAIN nodes')
        /\ \A k \in DOMAIN nodes : \A d : OnList(nodes', k, d) <=> OnList(nodes, k, d) /\ ~ (k = n /\ d = b)
    BY <1>2, <1>5, ListDrops
  <2>2. \A k \in DOMAIN nodes : \A d \in CacheBoxes : d # b => (OnList(nodes', k, d) <=> OnList(nodes, k, d))
    BY <2>1
  <2>3. \A k \in DOMAIN nodes \ readded : OnList(nodes', k, b) <=> PlacedOn(c2, m2, k)
    BY <1>2, <1>5, <2>1
  <2> HIDE DEF c, m
  <2> QED
    BY <1>1, <1>5, <2>1, <2>2, <2>3, ListsChange
<1>6. ASSUME c # Gone, v # Gone, cached' = [cached EXCEPT ![b] = v], assumed' = assumed, readded' = readded, nodes' = NodeAdds(w, v, b)
      PROVE  ListsHold'
  <2>1. CASE c \in {Unbound, v}
    <3>1. nodes' = NodeAdds(nodes, v, b) /\ assumed' = [assumed EXCEPT ![b] = m]
      BY <1>6, <1>b, <2>1
    <3>2. \A k \in CacheNodes : PlacedOn(c, m, k) \/ k = v <=> PlacedOn(v, m, k)
      BY <1>6, <1>a, <2>1 DEF PlacedOn
    <3>3. cached' = [cached EXCEPT ![b] = v] /\ readded' = readded
      BY <1>6
    <3> HIDE DEF v, w, c, m
    <3>4. Adds(v, m, v)
      BY <3>1, <3>2, <3>3
    <3> HIDE DEF Adds
    <3> QED
      BY <1>4, <3>4
  <2>2. CASE c \notin {Unbound, v}
    <3>1. w = NodeDrops(nodes, c, b)
      BY <2>2
    <3> HIDE DEF v, w, c, m
    <3>2. /\ DOMAIN w = DOMAIN nodes /\ Rows(w, DOMAIN w)
          /\ \A k \in DOMAIN nodes : \A d : OnList(w, k, d) <=> OnList(nodes, k, d) /\ ~ (k = c /\ d = b)
      BY <1>2, <3>1, ListDrops
    <3>3. /\ DOMAIN nodes' = DOMAIN nodes /\ Rows(nodes', DOMAIN nodes')
          /\ \A k \in DOMAIN nodes : \A d : OnList(nodes', k, d) <=> OnList(w, k, d) \/ (k = v /\ d = b)
      BY <1>6, <3>2, ListAdds
    <3>4. \A k \in DOMAIN nodes : \A d \in CacheBoxes : d # b => (OnList(nodes', k, d) <=> OnList(nodes, k, d))
      BY <3>2, <3>3
    <3>5. \A k \in DOMAIN nodes \ readded : OnList(nodes', k, b) <=> PlacedOn(v, m, k)
      BY <1>2, <1>6, <2>2, <3>2, <3>3 DEF PlacedOn
    <3>6. assumed' = [assumed EXCEPT ![b] = m]
      BY <1>6, <1>b
    <3> QED
      BY <1>1, <1>6, <3>3, <3>4, <3>5, <3>6, ListsChange
  <2> QED
    BY <2>1, <2>2
<1>7. CASE ApiStep(b) \/ ApiBind(b) \/ ApiRefuses(b)
  <2>1. nodes' = nodes /\ readded' = readded /\ cached' = cached /\ assumed' = assumed
    BY <1>7 DEF ApiStep, ApiCreate, ApiTouch, ApiDelete, ApiBind, ApiRefuses
  <2> HIDE DEF c, m
  <2> QED
    BY <1>3, <1>b, <2>1
<1>8. CASE ConfirmAssumeSandbox(b)
  <2>1. s = "bound" /\ nodes' = nodes /\ readded' = readded /\ cached' = cached /\ assumed' = [assumed EXCEPT ![b] = Gone]
    BY <1>8 DEF ConfirmAssumeSandbox
  <2>2. c = Gone => m = Gone
    BY <1>1, <2>1, CacheAssumption DEF BoxFor, BindingFor, Pending
  <2> HIDE DEF c, m
  <2>3. \A k \in CacheNodes : PlacedOn(c, m, k) <=> PlacedOn(c, Gone, k)
    BY <2>2 DEF PlacedOn
  <2> QED
    BY <1>3, <1>b, <2>1, <2>3
<1>9. ASSUME NEW n \in CacheNodes, AssumeSandbox(b, n) PROVE ListsHold'
  <2> DEFINE c2 == IF c = Gone THEN Gone ELSE n
  <2>1. /\ s = "queued" /\ m = Gone /\ nodes' = NodeAdds(nodes, n, b) /\ readded' = readded
        /\ assumed' = [assumed EXCEPT ![b] = n] /\ cached' = [cached EXCEPT ![b] = c2]
    BY <1>9 DEF AssumeSandbox
  <2>2. c \in {Unbound, Gone}
    BY <1>1, <2>1 DEF BoxFor, BindingFor
  <2>3. \A k \in CacheNodes : PlacedOn(c, m, k) \/ k = n <=> PlacedOn(c2, n, k)
    BY <1>9, <1>a, <2>1, <2>2 DEF PlacedOn
  <2> HIDE DEF c, m, c2
  <2> QED
    BY <1>4, <2>1, <2>3
<1>10. CASE ForgetSandbox(b)
  <2> DEFINE c2 == IF c = Gone THEN Gone ELSE Unbound
  <2>1. CASE m = Gone
    <3>1. nodes' = nodes /\ readded' = readded /\ cached' = cached /\ assumed' = assumed
      BY <1>10, <2>1 DEF ForgetSandbox
    <3> HIDE DEF c, m
    <3> QED
      BY <1>3, <1>b, <3>1
  <2>2. CASE m # Gone
    <3>1. /\ s = "refused" /\ nodes' = NodeDrops(nodes, m, b) /\ readded' = readded
          /\ assumed' = [assumed EXCEPT ![b] = Gone] /\ cached' = [cached EXCEPT ![b] = c2]
      BY <1>10, <2>2 DEF ForgetSandbox
    <3>2. c \in {Gone, Unbound, m}
      BY <1>1, <3>1 DEF BoxFor, BindingFor, Pending
    <3>3. \A k \in CacheNodes : PlacedOn(c, m, k) /\ k # m <=> PlacedOn(c2, Gone, k)
      BY <1>a, <2>2, <3>2 DEF PlacedOn
    <3> HIDE DEF c, m, c2
    <3> QED
      BY <1>5, <3>1, <3>3
  <2> QED
    BY <2>1, <2>2
<1>11. CASE DeliverEvent(b)
  <2>1. /\ readded' = readded
        /\ \/ /\ c = Gone /\ e.type = "add" /\ cached' = [cached EXCEPT ![b] = v]
              /\ nodes' = NodeAdds(nodes, v, b) /\ assumed' = assumed
           \/ /\ c # Gone /\ cached' = [cached EXCEPT ![b] = v] /\ nodes' = NodeAdds(w, v, b) /\ assumed' = assumed
           \/ /\ c # Gone /\ cached' = [cached EXCEPT ![b] = Gone] /\ nodes' = NodeDrops(nodes, c, b)
              /\ assumed' = [assumed EXCEPT ![b] = Gone]
    BY <1>11 DEF DeliverEvent, AddSandbox, UpdateSandbox, DeleteSandbox
  <2>2. /\ v # Gone
        /\ e.type = "add" => m = Gone
    <3>1. undelivered[b] \in Seq(CacheEvents) /\ undelivered[b] # <<>>
      BY <1>1, <1>11 DEF BoxFor, BoxTypes, DeliverEvent
    <3>2. /\ e = undelivered[b][1] /\ undelivered[b][1] \in CacheEvents
          /\ Len(undelivered[b]) \in Nat /\ Len(undelivered[b]) # 0
      BY <3>1, EventsMove
    <3>3. v # Gone
      BY <3>2, <1>a DEF CacheEvents, Hosts
    <3>4. e.type = "add" => s = "waits"
      BY <1>1, <3>2 DEF BoxFor, EventsFor
    <3>5. s = "waits" => m = Gone
      BY <1>1 DEF BoxFor, BindingFor
    <3> QED
      BY <3>3, <3>4, <3>5
  <2>3. CASE c = Gone /\ m = Gone /\ cached' = [cached EXCEPT ![b] = v] /\ nodes' = NodeAdds(nodes, v, b) /\ assumed' = assumed
    <3> HIDE DEF c, m, v
    <3>1. \A k \in CacheNodes : PlacedOn(c, m, k) \/ k = v <=> PlacedOn(v, m, k)
      BY <1>a, <2>2, <2>3 DEF PlacedOn
    <3>2. /\ assumed' = [assumed EXCEPT ![b] = m] /\ cached' = [cached EXCEPT ![b] = v] /\ readded' = readded
          /\ nodes' = NodeAdds(nodes, v, b)
      BY <1>b, <2>1, <2>3
    <3>3. Adds(v, m, v)
      BY <3>1, <3>2
    <3> HIDE DEF Adds
    <3> QED
      BY <1>4, <3>3
  <2>4. CASE c # Gone /\ cached' = [cached EXCEPT ![b] = v] /\ nodes' = NodeAdds(w, v, b) /\ assumed' = assumed
    BY <1>6, <2>1, <2>2, <2>4
  <2>5. CASE c # Gone /\ cached' = [cached EXCEPT ![b] = Gone] /\ nodes' = NodeDrops(nodes, c, b) /\ assumed' = [assumed EXCEPT ![b] = Gone]
    <3> HIDE DEF c, m, v
    <3>1. \A k \in CacheNodes : PlacedOn(c, m, k) /\ k # c <=> PlacedOn(Gone, Gone, k)
      BY <1>a, <2>5 DEF PlacedOn
    <3> QED
      BY <1>5, <2>1, <2>5, <3>1
  <2> HIDE DEF w, v, c, m, e
  <2> QED
    BY <2>1, <2>2, <2>3, <2>4, <2>5
<1> QED
  BY <1>7, <1>8, <1>9, <1>10, <1>11 DEF ScheduleStep

\* A sandbox enters or leaves the cache.
LEMMA InCacheMoves ==
    ASSUME BoxesHold, NEW b \in CacheBoxes, NEW c, cached' = [cached EXCEPT ![b] = c]
    PROVE  /\ Cardinality(InCache(cached)) \in Int
           /\ (c = Gone <=> cached[b] = Gone) => InCache(cached') = InCache(cached)
           /\ cached[b] = Gone /\ c # Gone => Cardinality(InCache(cached')) = Cardinality(InCache(cached)) + 1
           /\ cached[b] # Gone /\ c = Gone => Cardinality(InCache(cached')) = Cardinality(InCache(cached)) - 1
<1> DEFINE S == InCache(cached)
           T == InCache(cached')
<1>1. cached'[b] = c /\ \A d \in CacheBoxes : d # b => cached'[d] = cached[d]
  BY DEF BoxesHold, CacheShapes
<1>2. IsFiniteSet(S)
  BY FS_Subset, CacheAssumption DEF InCache
<1>3. Cardinality(S) \in Int
  <2>1. Cardinality(S) \in Nat
    BY <1>2, FS_CardinalityType
  <2> QED
    BY <2>1
<1>4. (c = Gone <=> cached[b] = Gone) => T = S
  BY <1>1 DEF InCache
<1>5. cached[b] = Gone /\ c # Gone => T = S \cup {b} /\ b \notin S
  BY <1>1 DEF InCache
<1>6. cached[b] # Gone /\ c = Gone => T = S \ {b} /\ b \in S
  BY <1>1 DEF InCache
<1> HIDE DEF S, T
<1>7. cached[b] = Gone /\ c # Gone => Cardinality(T) = Cardinality(S) + 1
  BY <1>2, <1>5, FS_AddElement
<1>8. cached[b] # Gone /\ c = Gone => Cardinality(T) = Cardinality(S) - 1
  BY <1>2, <1>6, FS_RemoveElement
<1> QED
  BY <1>3, <1>4, <1>7, <1>8 DEF S, T

\* The tenant's count moves with the cache.
LEMMA TenantStep ==
    ASSUME BoxesHold, TenantHolds, NEW b \in CacheBoxes, DeliverEvent(b) \/ ScheduleStep(b) \/ ApiStep(b)
    PROVE  TenantHolds'
<1> DEFINE c == cached[b]
           n0 == Cardinality(InCache(cached))
<1>1. ASSUME cached' = cached, active' = active PROVE TenantHolds'
  BY <1>1 DEF TenantHolds
<1>2. ASSUME NEW c2, cached' = [cached EXCEPT ![b] = c2], c2 = Gone <=> c = Gone, active' = active PROVE TenantHolds'
  <2>1. InCache(cached') = InCache(cached)
    BY <1>2, InCacheMoves
  <2> QED
    BY <1>2, <2>1 DEF TenantHolds
<1>3. ASSUME NEW c2, NEW k \in Int, cached' = [cached EXCEPT ![b] = c2], active' = TenantAdds(k),
             (k = 1 /\ c = Gone /\ c2 # Gone) \/ (k = -1 /\ c # Gone /\ c2 = Gone)
      PROVE  TenantHolds'
  <2>0. /\ n0 \in Int
        /\ c = Gone /\ c2 # Gone => Cardinality(InCache(cached')) = n0 + 1
        /\ c # Gone /\ c2 = Gone => Cardinality(InCache(cached')) = n0 - 1
    <3>1. cached' = [cached EXCEPT ![b] = c2]
      BY <1>3
    <3> QED
      BY <3>1, InCacheMoves, Zenon
  <2>1. n0 \in Int /\ Cardinality(InCache(cached')) = n0 + k
    <3> HIDE DEF n0, c
    <3> QED
      BY <1>3, <2>0
  <2>2. CASE active = Gone
    BY <1>3, <2>2 DEF TenantHolds, TenantAdds
  <2>3. CASE active # Gone
    <3>1. active \in Int /\ active <= n0 /\ active' = active + k
      BY <1>3, <2>3 DEF TenantHolds, TenantAdds
    <3> HIDE DEF n0
    <3>2. active' \in Int /\ active' <= n0 + k
      BY <2>1, <3>1
    <3> QED
      BY <2>1, <3>2 DEF TenantHolds
  <2> QED
    BY <2>2, <2>3
<1>a. BoxFor(api[b], undelivered[b], c, assumed[b], sched[b]) /\ Unbound # Gone /\ Gone \notin CacheNodes
  BY CacheAssumption DEF BoxesHold
<1>4. CASE ApiStep(b) \/ ApiBind(b) \/ ApiRefuses(b) \/ ConfirmAssumeSandbox(b)
  BY <1>1, <1>4 DEF ApiStep, ApiCreate, ApiTouch, ApiDelete, ApiBind, ApiRefuses, ConfirmAssumeSandbox
<1>5. ASSUME NEW n \in CacheNodes, AssumeSandbox(b, n) PROVE TenantHolds'
  <2> DEFINE c2 == IF c = Gone THEN Gone ELSE n
  <2>1. cached' = [cached EXCEPT ![b] = c2] /\ active' = active
    BY <1>5 DEF AssumeSandbox
  <2>2. c2 = Gone <=> c = Gone
    BY <1>5, <1>a
  <2> HIDE DEF c, c2
  <2> QED
    BY <1>2, <2>1, <2>2
<1>6. CASE ForgetSandbox(b)
  <2> DEFINE c2 == IF c = Gone THEN Gone ELSE Unbound
  <2>1. (cached' = cached \/ cached' = [cached EXCEPT ![b] = c2]) /\ active' = active
    BY <1>6 DEF ForgetSandbox
  <2>2. c2 = Gone <=> c = Gone
    BY <1>a
  <2> HIDE DEF c, c2
  <2> QED
    BY <1>1, <1>2, <2>1, <2>2
<1>7. CASE DeliverEvent(b)
  <2> DEFINE v == Head(undelivered[b]).node
  <2>1. \/ c = Gone /\ cached' = [cached EXCEPT ![b] = v] /\ active' = TenantAdds(1)
        \/ c # Gone /\ cached' = [cached EXCEPT ![b] = v] /\ active' = active
        \/ c # Gone /\ cached' = [cached EXCEPT ![b] = Gone] /\ active' = TenantAdds(-1)
    BY <1>7 DEF DeliverEvent, AddSandbox, UpdateSandbox, DeleteSandbox
  <2>2. v # Gone
    <3>1. undelivered[b] \in Seq(CacheEvents) /\ undelivered[b] # <<>>
      BY <1>7, <1>a DEF BoxFor, BoxTypes, DeliverEvent
    <3>2. Head(undelivered[b]) \in CacheEvents
      BY <3>1, EventsMove
    <3> QED
      BY <3>2, <1>a DEF CacheEvents, Hosts
  <2> HIDE DEF v, c
  <2>3. CASE c = Gone /\ cached' = [cached EXCEPT ![b] = v] /\ active' = TenantAdds(1)
    <3>1. 1 \in Int /\ 1 = 1 /\ c = Gone /\ v # Gone
      BY <2>2, <2>3
    <3> QED
      BY <1>3, <2>3, <3>1
  <2>4. CASE c # Gone /\ cached' = [cached EXCEPT ![b] = v] /\ active' = active
    BY <1>2, <2>2, <2>4
  <2>5. CASE c # Gone /\ cached' = [cached EXCEPT ![b] = Gone] /\ active' = TenantAdds(-1)
    <3> DEFINE k == -1
    <3>1. k \in Int /\ k = -1 /\ active' = TenantAdds(k)
      BY <2>5
    <3> HIDE DEF k
    <3> QED
      BY <1>3, <2>5, <3>1
  <2> QED
    BY <2>1, <2>3, <2>4, <2>5
<1> QED
  BY <1>4, <1>5, <1>6, <1>7 DEF ScheduleStep

\* The lists of the other nodes outlive a node that comes or goes.
LEMMA NodesStep ==
    ASSUME ListsHold, NEW n \in CacheNodes, AddNode(n) \/ RemoveNode(n)
    PROVE  ListsHold'
<1>1. /\ readded' = readded \cup {n} /\ cached' = cached /\ assumed' = assumed
      /\ DOMAIN nodes' \subseteq DOMAIN nodes \cup {n} /\ \A k \in DOMAIN nodes' : k # n => nodes'[k] = nodes[k]
  BY DEF AddNode, RemoveNode
<1>2. Rows(nodes', DOMAIN nodes')
  BY DEF AddNode, RemoveNode, Rows
<1>3. ASSUME NEW d \in CacheBoxes, NEW k \in DOMAIN nodes' \ readded'
      PROVE  OnList(nodes', k, d) <=> PlacedOn(cached'[d], assumed'[d], k)
  <2>1. k \in DOMAIN nodes \ readded /\ nodes'[k] = nodes[k]
    BY <1>1, <1>3
  <2> QED
    BY <1>1, <2>1 DEF ListsHold, OnList
<1> QED
  BY <1>1, <1>2, <1>3 DEF ListsHold

\* Nothing is cached yet.
LEMMA CacheStarts == CacheInit => CacheInv
<1> SUFFICES ASSUME CacheInit PROVE CacheInv
  OBVIOUS
<1>1. CacheShapes
  BY DEF CacheInit, CacheShapes
<1>2. BoxFor(Gone, <<>>, Gone, Gone, "waits")
  <2>1. <<>> \in Seq(CacheEvents) /\ Len(<<>>) = 0
    OBVIOUS
  <2>2. ~ Pending("waits")
    BY CacheAssumption DEF Pending
  <2> QED
    BY <2>1, <2>2 DEF BoxFor, BoxTypes, EventsFor, BindingFor, CaughtUp, Phases
<1>3. BoxesHold
  BY <1>1, <1>2 DEF BoxesHold, CacheInit
<1>4. ListsHold
  <2>1. DOMAIN nodes = CacheNodes /\ Rows(nodes, DOMAIN nodes)
    BY DEF CacheInit, Rows
  <2>2. ASSUME NEW b \in CacheBoxes, NEW n \in CacheNodes PROVE ~ OnList(nodes, n, b) /\ ~ PlacedOn(cached[b], assumed[b], n)
    BY CacheAssumption DEF CacheInit, OnList, PlacedOn, NewNode
  <2> QED
    BY <2>1, <2>2 DEF ListsHold
<1>5. TenantHolds
  <2>1. InCache(cached) = {}
    BY DEF CacheInit, InCache
  <2>2. Cardinality({}) = 0
    BY FS_EmptySet
  <2>3. active \in Int /\ active <= 0
    BY DEF CacheInit
  <2> QED
    BY <2>1, <2>2, <2>3 DEF TenantHolds
<1> QED
  BY <1>3, <1>4, <1>5 DEF CacheInv

\* Every step keeps the invariant.
LEMMA CacheSteps == CacheInv /\ [CacheNext]_cacheVars => CacheInv'
<1> SUFFICES ASSUME CacheInv, [CacheNext]_cacheVars PROVE CacheInv'
  OBVIOUS
<1>1. BoxesHold /\ ListsHold /\ TenantHolds
  BY DEF CacheInv
<1>2. ASSUME NEW b \in CacheBoxes, DeliverEvent(b) \/ ScheduleStep(b) \/ ApiStep(b) PROVE CacheInv'
  <2>1. BoxesHold'
    BY <1>1, <1>2, BoxesStep
  <2>2. ListsHold'
    BY <1>1, <1>2, ListsStep
  <2>3. TenantHolds'
    BY <1>1, <1>2, TenantStep
  <2> QED
    BY <2>1, <2>2, <2>3 DEF CacheInv
<1>3. ASSUME api' = api, undelivered' = undelivered, cached' = cached, assumed' = assumed, sched' = sched PROVE BoxesHold'
  BY <1>1, <1>3 DEF BoxesHold, CacheShapes
<1>4. ASSUME NEW n \in CacheNodes, AddNode(n) \/ RemoveNode(n) PROVE CacheInv'
  <2>1. ListsHold'
    BY <1>1, <1>4, NodesStep
  <2>2. api' = api /\ undelivered' = undelivered /\ cached' = cached /\ assumed' = assumed /\ sched' = sched /\ active' = active
    BY <1>4 DEF AddNode, RemoveNode
  <2>3. TenantHolds'
    BY <1>1, <2>2 DEF TenantHolds
  <2> QED
    BY <1>3, <2>1, <2>2, <2>3 DEF CacheInv
<1>5. CASE AddTenant \/ RemoveTenant
  <2>1. /\ api' = api /\ undelivered' = undelivered /\ cached' = cached /\ assumed' = assumed /\ sched' = sched
        /\ nodes' = nodes /\ readded' = readded /\ active' \in {0, Gone}
    BY <1>5 DEF AddTenant, RemoveTenant
  <2>2. ListsHold'
    BY <1>1, <2>1 DEF ListsHold
  <2>3. TenantHolds'
    <3>1. IsFiniteSet(InCache(cached))
      BY FS_Subset, CacheAssumption DEF InCache
    <3>2. Cardinality(InCache(cached)) \in Nat
      BY <3>1, FS_CardinalityType
    <3>3. Cardinality(InCache(cached)) >= 0
      BY <3>2
    <3> QED
      BY <2>1, <3>3 DEF TenantHolds
  <2> QED
    BY <1>3, <2>1, <2>2, <2>3 DEF CacheInv
<1>6. CASE UNCHANGED cacheVars
  BY <1>1, <1>6 DEF CacheInv, BoxesHold, CacheShapes, ListsHold, TenantHolds, cacheVars
<1> QED
  BY <1>2, <1>4, <1>5, <1>6 DEF CacheNext

\* What CacheSafe says of the states of the invariant.
LEMMA CacheInvSafe == CacheInv => CacheSafe
<1> SUFFICES ASSUME CacheInv PROVE CacheSafe
  OBVIOUS
<1>1. ASSUME NEW b \in CacheBoxes, undelivered[b] = <<>>, sched[b] \in {"waits", "queued", "done"}
      PROVE  /\ cached[b] = api[b] /\ assumed[b] = Gone
             /\ \A n \in DOMAIN nodes \ readded : b \in nodes[n].Sandboxes <=> api[b] = n
  <2>1. BoxFor(api[b], undelivered[b], cached[b], assumed[b], sched[b])
    BY DEF CacheInv, BoxesHold
  <2>2. Len(undelivered[b]) = 0 /\ ~ Pending(sched[b])
    BY <1>1, CacheAssumption DEF Pending
  <2>3. cached[b] = api[b] /\ assumed[b] = Gone
    BY <1>1, <2>1, <2>2 DEF BoxFor, CaughtUp, BindingFor
  <2>4. ASSUME NEW n \in DOMAIN nodes \ readded PROVE b \in nodes[n].Sandboxes <=> api[b] = n
    BY <2>3, CacheAssumption DEF CacheInv, ListsHold, OnList, PlacedOn
  <2> QED
    BY <2>3, <2>4
<1>2. CacheAgrees
  BY <1>1 DEF CacheAgrees
<1>3. TenantNotOvercounted
  BY DEF CacheInv, TenantHolds, TenantNotOvercounted, InCache
<1> QED
  BY <1>2, <1>3 DEF CacheSafe

\* The cache catches up with the API server whatever the order of assumptions
\* and events, and charges a tenant no more sandboxes than it has of it, for
\* any number of sandboxes, nodes and updates.
THEOREM CacheAlwaysSafe == CacheSpec => []CacheSafe
<1> QED
  BY CacheStarts, CacheSteps, CacheInvSafe, PTL DEF CacheSpec

-----------------------------------------------------------------------------
(* The books of the nodes *)

\* What a node's books may be.
Books == [Sandboxes : SUBSET PlacedBoxes, requested : [ResourceNames -> Nat],
          available : [ResourceNames -> Nat]]

PlaceTypeOK ==
    /\ spec \in [PlacedBoxes -> PlaceSpecs]
    /\ place \in [PlacedBoxes -> PlaceNodes \cup {Nowhere}]
    /\ info \in [PlaceNodes -> Books]

\* A sandbox is on the books of the node it was placed on, and of no other; one at
\* most is placed and not yet on the books, and there is room for it.
Booked ==
    /\ \A n \in PlaceNodes : \A b \in info[n].Sandboxes : place[b] = n
    /\ \A a, b \in PlacedBoxes : ~ Entered(a) /\ ~ Entered(b) => a = b
    /\ \A b \in PlacedBoxes : ~ Entered(b) => Fits(info[place[b]].available, spec[b].req)

BInv == PlaceTypeOK /\ Booked /\ PlacementSafe

\* What a quantity adds, and what each sandbox takes of a resource.
Need(q) == IF Parses(q) THEN q ELSE 0
Needs(s, k) == [b \in PlacedBoxes |-> Need(s[b].req[k])]

\* The fold that NodeBalanced states is this sum.
LEMMA NodeFold ==
    ASSUME NEW s, NEW S, S \subseteq PlacedBoxes, NEW k
    PROVE  (CHOOSE g : g = [x \in SUBSET S |->
               IF x = {} THEN 0
               ELSE (IF Parses(s[Pick(x)].req[k]) THEN s[Pick(x)].req[k] ELSE 0)
                       + g[x \ {Pick(x)}]])[S]
              = Sum(Needs(s, k), S)
<1>1. PICK v : v = Needs(s, k)
  OBVIOUS
<1>2. \A x \in SUBSET S : x # {} =>
         v[Pick(x)] = IF Parses(s[Pick(x)].req[k]) THEN s[Pick(x)].req[k] ELSE 0
  BY <1>1, PickIn DEF Needs, Need
<1>3. ASSUME NEW g
      PROVE  IsSum(g, v, S) <=> g = [x \in SUBSET S |->
                IF x = {} THEN 0
                ELSE (IF Parses(s[Pick(x)].req[k]) THEN s[Pick(x)].req[k] ELSE 0)
                        + g[x \ {Pick(x)}]]
  BY <1>2 DEF IsSum
<1>4. (CHOOSE g : IsSum(g, v, S)) = (CHOOSE g : g = [x \in SUBSET S |->
         IF x = {} THEN 0
         ELSE (IF Parses(s[Pick(x)].req[k]) THEN s[Pick(x)].req[k] ELSE 0)
                 + g[x \ {Pick(x)}]])
  BY <1>3
<1>5. Sum(v, S) = (CHOOSE g : IsSum(g, v, S))[S]
  BY SumIsFold
<1> QED BY <1>1, <1>4, <1>5

\* The books of one node.
Balanced(book, s, n) ==
    \A k \in ResourceNames :
        /\ book.requested[k] = Sum(Needs(s, k), book.Sandboxes)
        /\ book.available[k] = allocatable[n][k] - book.requested[k]

LEMMA BalancedIs ==
    /\ PlaceTypeOK => (NodeBalanced <=> \A n \in PlaceNodes : Balanced(info[n], spec, n))
    /\ PlaceTypeOK' => (NodeBalanced' <=> \A n \in PlaceNodes : Balanced(info'[n], spec', n))
<1>1. ASSUME PlaceTypeOK, NEW n \in PlaceNodes, NEW k
      PROVE  MapThenSumSet(LAMBDA b : Asked(b, k), info[n].Sandboxes)
                = Sum(Needs(spec, k), info[n].Sandboxes)
  <2>1. PICK S : S = info[n].Sandboxes
    OBVIOUS
  <2>2. S \subseteq PlacedBoxes
    BY <1>1, <2>1 DEF PlaceTypeOK, Books
  <2> QED BY <2>1, <2>2, NodeFold DEF Asked, MapThenSumSet, MapThenFoldSet, Pick
<1>2. ASSUME PlaceTypeOK', NEW n \in PlaceNodes, NEW k
      PROVE  MapThenSumSet(LAMBDA b : Asked(b, k)', info'[n].Sandboxes)
                = Sum(Needs(spec', k), info'[n].Sandboxes)
  <2>1. PICK S : S = info'[n].Sandboxes
    OBVIOUS
  <2>2. S \subseteq PlacedBoxes
    BY <1>2, <2>1 DEF PlaceTypeOK, Books
  <2> QED BY <2>1, <2>2, NodeFold DEF Asked, MapThenSumSet, MapThenFoldSet, Pick
<1>3. PlaceTypeOK => (NodeBalanced <=> \A n \in PlaceNodes : Balanced(info[n], spec, n))
  <2> SUFFICES ASSUME PlaceTypeOK
               PROVE  NodeBalanced <=> \A n \in PlaceNodes : Balanced(info[n], spec, n)
    OBVIOUS
  <2>1. ASSUME NodeBalanced, NEW n \in PlaceNodes PROVE Balanced(info[n], spec, n)
    BY <1>1, <2>1 DEF NodeBalanced, Balanced
  <2>2. ASSUME \A n \in PlaceNodes : Balanced(info[n], spec, n),
               NEW n \in PlaceNodes, NEW k \in ResourceNames
        PROVE  /\ info[n].requested[k] = MapThenSumSet(LAMBDA b : Asked(b, k), info[n].Sandboxes)
               /\ info[n].available[k] = allocatable[n][k] - info[n].requested[k]
    BY <1>1, <2>2 DEF Balanced
  <2> QED BY <2>1, <2>2 DEF NodeBalanced
<1>4. PlaceTypeOK' => (NodeBalanced' <=> \A n \in PlaceNodes : Balanced(info'[n], spec', n))
  <2> SUFFICES ASSUME PlaceTypeOK'
               PROVE  NodeBalanced' <=> \A n \in PlaceNodes : Balanced(info'[n], spec', n)
    OBVIOUS
  <2>1. ASSUME NodeBalanced', NEW n \in PlaceNodes PROVE Balanced(info'[n], spec', n)
    BY <1>2, <2>1 DEF NodeBalanced, Balanced
  <2>2. ASSUME \A n \in PlaceNodes : Balanced(info'[n], spec', n),
               NEW n \in PlaceNodes, NEW k \in ResourceNames
        PROVE  /\ info'[n].requested[k] = MapThenSumSet(LAMBDA b : Asked(b, k)', info'[n].Sandboxes)
               /\ info'[n].available[k] = allocatable[n][k] - info'[n].requested[k]
    BY <1>2, <2>2 DEF Balanced
  <2> QED BY <2>1, <2>2 DEF NodeBalanced
<1> QED BY <1>3, <1>4

LEMMA NeedsNat ==
    ASSUME NEW s \in [PlacedBoxes -> PlaceSpecs], NEW k \in ResourceNames, NEW b \in PlacedBoxes
    PROVE  /\ Needs(s, k)[b] = Need(s[b].req[k]) /\ Need(s[b].req[k]) \in Nat
           /\ Parses(s[b].req[k]) => s[b].req[k] \in Nat
BY PlaceSpecsAssumption DEF Needs, Need, Parses

\* The node that is chosen is one of the lister's, and every filter let it pass.
LEMMA SelectedFits ==
    ASSUME NEW s, Selected(s) # Nowhere
    PROVE  Selected(s) \in PlaceNodes /\ Feasible(s, Selected(s))
<1> DEFINE feasible == {i \in DOMAIN NodeOrder : Feasible(s, NodeOrder[i])}
           best == {i \in feasible : \A j \in feasible :
                       Score(s, NodeOrder[i]) >= Score(s, NodeOrder[j])}
<1>1. feasible # {} /\ Selected(s) = NodeOrder[Min(best)]
  BY DEF Selected
<1>2. best = feasible
  BY DEF Score
<1>3. PICK n : n = Len(NodeOrder)
  OBVIOUS
<1>4. n \in Nat /\ feasible \subseteq 1..n
  BY <1>3, PlaceAssumption
<1>5. \E i \in feasible : \A j \in feasible : i <= j
  <2> HIDE DEF feasible
  <2> QED BY <1>1, <1>4, FirstIn
<1>6. Min(best) \in feasible
  <2> HIDE DEF feasible, best
  <2> QED BY <1>2, <1>5 DEF Min
<1> QED BY <1>1, <1>6 DEF PlaceNodes

\* A node that has the runtime and the labels a spec asks for.
Label(n, key, value) == HasLabel(n, key) /\ labels[n][key] = value

Meets(e, n) ==
    CASE e.op = "In" -> \E value \in e.values : Label(n, e.key, value)
      [] e.op = "NotIn" -> ~ \E value \in e.values : Label(n, e.key, value)
      [] e.op = "Exists" -> HasLabel(n, e.key)
      [] OTHER -> ~ HasLabel(n, e.key)

Suits(s, n) ==
    /\ s.runtime # "runc" =>
          Label(n, IF s.runtime = "kata" THEN "runtime-kata" ELSE "runtime-gvisor", "true")
    /\ s.affinity => \E term \in s.terms : \A e \in term : Meets(e, n)
    /\ s.policy = "TenantAntiAffinity" => ~ Label(n, "tenant", s.tenant)

LEMMA PlacedWellIs ==
    PlacedWell <=> \A b \in PlacedBoxes : place[b] # Nowhere => Suits(spec[b], place[b])
BY DEF PlacedWell, Suits, Meets, Label

\* What the filters let pass suits.
LEMMA FilteredSuits ==
    ASSUME KnownOperators, NEW s \in PlaceSpecs, NEW n \in PlaceNodes,
           TenantAffinityFilter(s, n), RuntimeFilter(s, n)
    PROVE  Suits(s, n)
<1>1. s.runtime # "runc" =>
         Label(n, IF s.runtime = "kata" THEN "runtime-kata" ELSE "runtime-gvisor", "true")
  BY DEF RuntimeFilter, Label
<1>2. ASSUME s.affinity
      PROVE  \E term \in s.terms : \A e \in term : Meets(e, n)
  <2>1. PICK term \in s.terms : matchNodeSelectorTerm(term, n)
    BY <1>2 DEF TenantAffinityFilter
  <2>2. ASSUME NEW e \in term PROVE Meets(e, n)
    <3>1. matchExpression(e, n)
      BY <2>1 DEF matchNodeSelectorTerm
    <3>2. e.op \in {"In", "NotIn", "Exists", "DoesNotExist"}
      BY DEF KnownOperators
    <3>3. CASE e.op = "In"
      BY <3>1, <3>3 DEF matchExpression, Meets, Label
    <3>4. CASE e.op = "NotIn"
      BY <3>1, <3>4 DEF matchExpression, Meets, Label
    <3>5. CASE e.op = "Exists"
      BY <3>1, <3>5 DEF matchExpression, Meets
    <3>6. CASE e.op = "DoesNotExist"
      BY <3>1, <3>6 DEF matchExpression, Meets
    <3> QED BY <3>2, <3>3, <3>4, <3>5, <3>6
  <2> QED BY <2>2
<1>3. s.policy = "TenantAntiAffinity" => ~ Label(n, "tenant", s.tenant)
  BY DEF TenantAffinityFilter, Label
<1> QED BY <1>1, <1>2, <1>3 DEF Suits

LEMMA PlaceInitInv == PlaceInit => BInv
<1> SUFFICES ASSUME PlaceInit PROVE BInv
  OBVIOUS
<1>1. PlaceTypeOK
  <2>1. \A n \in PlaceNodes : info[n] \in Books
    BY PlaceAssumption DEF PlaceInit, Books
  <2> QED BY <2>1 DEF PlaceInit, PlaceTypeOK
<1>2. \A b \in PlacedBoxes : place[b] = Nowhere
  BY DEF PlaceInit
<1>3. Booked
  BY <1>2 DEF PlaceInit, Booked, Entered
<1>4. \A n \in PlaceNodes : Balanced(info[n], spec, n)
  <2> SUFFICES ASSUME NEW n \in PlaceNodes, NEW k \in ResourceNames
               PROVE  /\ info[n].requested[k] = Sum(Needs(spec, k), info[n].Sandboxes)
                      /\ info[n].available[k] = allocatable[n][k] - info[n].requested[k]
    BY DEF Balanced
  <2>1. /\ info[n].Sandboxes = {} /\ info[n].requested[k] = 0
        /\ info[n].available[k] = allocatable[n][k] /\ allocatable[n][k] \in Nat
    BY PlaceAssumption DEF PlaceInit
  <2> QED BY <2>1, SumEmpty
<1>5. PlacementSafe
  BY <1>1, <1>2, <1>4, BalancedIs, PlacedWellIs DEF PlacementSafe
<1> QED BY <1>1, <1>3, <1>5 DEF BInv

LEMMA ScheduleKeeps ==
    ASSUME KnownOperators, BInv, NEW b \in PlacedBoxes, scheduleSandbox(b)
    PROVE  BInv'
<1>0. /\ spec \in [PlacedBoxes -> PlaceSpecs] /\ info \in [PlaceNodes -> Books]
      /\ place \in [PlacedBoxes -> PlaceNodes \cup {Nowhere}]
      /\ UNCHANGED <<spec, info>>
  BY DEF BInv, PlaceTypeOK, scheduleSandbox
<1>1. PICK n : n = Selected(spec[b])
  OBVIOUS
<1>2. n \in PlaceNodes /\ Feasible(spec[b], n) /\ n # Nowhere /\ place[b] = Nowhere
  BY <1>1, SelectedFits DEF scheduleSandbox
<1>3. place' = [place EXCEPT ![b] = n]
  BY <1>1 DEF scheduleSandbox
<1>4. PlaceTypeOK'
  BY <1>0, <1>2, <1>3 DEF PlaceTypeOK
<1>5. place'[b] = n /\ \A a \in PlacedBoxes \ {b} : place'[a] = place[a]
  BY <1>0, <1>3
<1>6. \A m \in PlaceNodes : b \notin info[m].Sandboxes
  BY <1>2, PlaceAssumption DEF BInv, Booked
<1>7. Booked'
  <2>1. \A a \in PlacedBoxes : ~ Entered(a)' => a = b
    BY <1>0, <1>5 DEF Entered, scheduleSandbox
  <2>2. Fits(info'[place'[b]].available, spec'[b].req)
    BY <1>0, <1>2, <1>5 DEF Feasible
  <2>3. \A m \in PlaceNodes : \A a \in info'[m].Sandboxes : place'[a] = m
    <3>1. \A m \in PlaceNodes : info[m].Sandboxes \subseteq PlacedBoxes
      BY <1>0 DEF Books
    <3> QED BY <1>0, <1>5, <1>6, <3>1 DEF BInv, Booked
  <2> QED BY <2>1, <2>2, <2>3 DEF Booked
<1>8. NodeBalanced'
  BY <1>0, <1>4, BalancedIs DEF BInv, PlacementSafe
<1>9. PlacedWell'
  <2>1. Suits(spec[b], n)
    BY <1>0, <1>2, FilteredSuits DEF Feasible
  <2>2. \A a \in PlacedBoxes : place[a] # Nowhere => Suits(spec[a], place[a])
    BY PlacedWellIs DEF BInv, PlacementSafe
  <2>3. \A a \in PlacedBoxes : place'[a] # Nowhere => Suits(spec'[a], place'[a])
    BY <1>0, <1>5, <2>1, <2>2
  <2> QED BY <2>3 DEF PlacedWell, Suits, Meets, Label
<1> QED BY <1>4, <1>7, <1>8, <1>9 DEF BInv, PlacementSafe

\* The books of a node that a sandbox is entered on, and taken off.
BookAdd(book, b, s) ==
    [Sandboxes |-> book.Sandboxes \cup {b},
     requested |-> ResourceAdd(book.requested, s[b].req),
     available |-> ResourceSub(book.available, s[b].req)]

BookRemove(book, b, s) ==
    [Sandboxes |-> book.Sandboxes \ {b},
     requested |-> ResourceSub(book.requested, s[b].req),
     available |-> ResourceAdd(book.available, s[b].req)]

\* Resource.Add and Resource.Sub, on one resource.
LEMMA QuantityAdded ==
    ASSUME NEW r \in [ResourceNames -> Nat], NEW s \in [PlacedBoxes -> PlaceSpecs],
           NEW b \in PlacedBoxes, NEW k \in ResourceNames
    PROVE  /\ ResourceAdd(r, s[b].req) \in [ResourceNames -> Nat]
           /\ ResourceAdd(r, s[b].req)[k] = r[k] + Need(s[b].req[k])
<1>1. \A j \in ResourceNames : (IF Parses(s[b].req[j]) THEN r[j] + s[b].req[j] ELSE r[j]) \in Nat
  BY NeedsNat
<1>2. /\ ResourceAdd(r, s[b].req) \in [ResourceNames -> Nat]
      /\ ResourceAdd(r, s[b].req)[k] = IF Parses(s[b].req[k]) THEN r[k] + s[b].req[k] ELSE r[k]
  BY <1>1 DEF ResourceAdd
<1>3. r[k] \in Nat
  OBVIOUS
<1> QED BY <1>2, <1>3 DEF Need

LEMMA QuantityTaken ==
    ASSUME NEW r \in [ResourceNames -> Nat], NEW s \in [PlacedBoxes -> PlaceSpecs],
           NEW b \in PlacedBoxes, NEW k \in ResourceNames
    PROVE  /\ ResourceSub(r, s[b].req) \in [ResourceNames -> Nat]
           /\ r[k] >= Need(s[b].req[k]) =>
                 ResourceSub(r, s[b].req)[k] = r[k] - Need(s[b].req[k])
<1>1. \A j \in ResourceNames :
         (IF ~ Parses(s[b].req[j]) THEN r[j]
          ELSE IF r[j] < s[b].req[j] THEN 0 ELSE r[j] - s[b].req[j]) \in Nat
  BY NeedsNat
<1>2. /\ ResourceSub(r, s[b].req) \in [ResourceNames -> Nat]
      /\ ResourceSub(r, s[b].req)[k] =
            IF ~ Parses(s[b].req[k]) THEN r[k]
            ELSE IF r[k] < s[b].req[k] THEN 0 ELSE r[k] - s[b].req[k]
  BY <1>1 DEF ResourceSub
<1>3. r[k] \in Nat /\ (Parses(s[b].req[k]) => s[b].req[k] \in Nat)
  BY NeedsNat
<1> QED BY <1>2, <1>3 DEF Need

LEMMA BooksFinite ==
    ASSUME NEW book \in Books
    PROVE  IsFiniteSet(book.Sandboxes) /\ book.Sandboxes \subseteq PlacedBoxes
BY PlaceAssumption, FS_Subset DEF Books

\* The books balance after one sandbox more, if it fits, and after one less.
LEMMA BookAddKeeps ==
    ASSUME NEW book \in Books, NEW s \in [PlacedBoxes -> PlaceSpecs], NEW n \in PlaceNodes,
           Balanced(book, s, n), NEW b \in PlacedBoxes, b \notin book.Sandboxes,
           Fits(book.available, s[b].req)
    PROVE  BookAdd(book, b, s) \in Books /\ Balanced(BookAdd(book, b, s), s, n)
<1>1. PICK S, r, a : S = book.Sandboxes /\ r = book.requested /\ a = book.available
  OBVIOUS
<1>2. /\ IsFiniteSet(S) /\ S \subseteq PlacedBoxes /\ b \notin S
      /\ r \in [ResourceNames -> Nat] /\ a \in [ResourceNames -> Nat]
  BY <1>1, BooksFinite DEF Books
<1>3. PICK p, q : p = ResourceAdd(r, s[b].req) /\ q = ResourceSub(a, s[b].req)
  OBVIOUS
<1>4. p \in [ResourceNames -> Nat] /\ q \in [ResourceNames -> Nat]
  <2>1. "cpu" \in ResourceNames
    BY DEF ResourceNames
  <2> QED BY <1>2, <1>3, <2>1, QuantityAdded, QuantityTaken
<1>5. BookAdd(book, b, s) = [Sandboxes |-> S \cup {b}, requested |-> p, available |-> q]
  BY <1>1, <1>3 DEF BookAdd
<1>6. BookAdd(book, b, s) \in Books
  BY <1>2, <1>4, <1>5 DEF Books
<1>7. ASSUME NEW k \in ResourceNames
      PROVE  p[k] = Sum(Needs(s, k), S \cup {b}) /\ q[k] = allocatable[n][k] - p[k]
  <2>1. PICK v, need : v = Needs(s, k) /\ need = Need(s[b].req[k])
    OBVIOUS
  <2>2. v[b] = need /\ need \in Nat /\ \A x \in PlacedBoxes : v[x] \in Nat
    BY <2>1, NeedsNat
  <2>3. \A x \in S \cup {b} : v[x] \in Int
    BY <1>2, <2>2
  <2>4. Sum(v, S \cup {b}) = v[b] + Sum(v, S)
    BY <1>2, <2>3, SumAdd
  <2>5. r[k] = Sum(v, S) /\ a[k] = allocatable[n][k] - r[k]
    BY <1>1, <2>1 DEF Balanced
  <2>6. a[k] >= need /\ a[k] \in Nat /\ r[k] \in Nat /\ allocatable[n][k] \in Nat
    <3>1. Parses(s[b].req[k]) => a[k] >= s[b].req[k]
      BY <1>1 DEF Fits
    <3>2. a[k] \in Nat /\ r[k] \in Nat
      BY <1>2
    <3>3. allocatable[n][k] \in Nat
      BY PlaceAssumption
    <3> QED BY <2>1, <3>1, <3>2, <3>3 DEF Need
  <2>7. p[k] = r[k] + need
    BY <1>2, <1>3, <2>1, QuantityAdded
  <2>8. q[k] = a[k] - need
    BY <1>2, <1>3, <2>1, <2>6, QuantityTaken
  <2> QED BY <2>1, <2>2, <2>4, <2>5, <2>6, <2>7, <2>8
<1>8. PICK new : new = BookAdd(book, b, s)
  OBVIOUS
<1>9. new.Sandboxes = S \cup {b} /\ new.requested = p /\ new.available = q
  BY <1>5, <1>8
<1>10. Balanced(new, s, n)
  BY <1>7, <1>9 DEF Balanced
<1> QED BY <1>6, <1>8, <1>10

LEMMA BookRemoveKeeps ==
    ASSUME NEW book \in Books, NEW s \in [PlacedBoxes -> PlaceSpecs], NEW n \in PlaceNodes,
           Balanced(book, s, n), NEW b \in book.Sandboxes
    PROVE  /\ BookRemove(book, b, s) \in Books /\ Balanced(BookRemove(book, b, s), s, n)
           /\ \A k \in ResourceNames :
                 /\ book.available[k] \in Nat /\ BookRemove(book, b, s).available[k] \in Nat
                 /\ BookRemove(book, b, s).available[k] >= book.available[k]
<1>1. PICK S, r, a : S = book.Sandboxes /\ r = book.requested /\ a = book.available
  OBVIOUS
<1>2. /\ IsFiniteSet(S) /\ S \subseteq PlacedBoxes /\ b \in S /\ b \in PlacedBoxes
      /\ r \in [ResourceNames -> Nat] /\ a \in [ResourceNames -> Nat]
  BY <1>1, BooksFinite DEF Books
<1>3. PICK p, q : p = ResourceSub(r, s[b].req) /\ q = ResourceAdd(a, s[b].req)
  OBVIOUS
<1>4. p \in [ResourceNames -> Nat] /\ q \in [ResourceNames -> Nat]
  <2>1. "cpu" \in ResourceNames
    BY DEF ResourceNames
  <2> QED BY <1>2, <1>3, <2>1, QuantityAdded, QuantityTaken
<1>5. BookRemove(book, b, s) = [Sandboxes |-> S \ {b}, requested |-> p, available |-> q]
  BY <1>1, <1>3 DEF BookRemove
<1>6. BookRemove(book, b, s) \in Books
  BY <1>2, <1>4, <1>5 DEF Books
<1>7. ASSUME NEW k \in ResourceNames
      PROVE  /\ p[k] = Sum(Needs(s, k), S \ {b}) /\ q[k] = allocatable[n][k] - p[k]
             /\ a[k] \in Nat /\ q[k] \in Nat /\ q[k] >= a[k]
  <2>1. PICK v, need : v = Needs(s, k) /\ need = Need(s[b].req[k])
    OBVIOUS
  <2>2. v[b] = need /\ need \in Nat /\ \A x \in PlacedBoxes : v[x] \in Nat
    BY <1>2, <2>1, NeedsNat
  <2>3. \A x \in S : v[x] \in Int
    BY <1>2, <2>2
  <2>4. Sum(v, S) = v[b] + Sum(v, S \ {b})
    BY <1>2, <2>3, SumRemove
  <2>5. Sum(v, S \ {b}) \in Nat
    <3>1. IsFiniteSet(S \ {b}) /\ \A x \in S \ {b} : v[x] \in Nat
      BY <1>2, <2>2, FS_Subset
    <3> QED BY <3>1, SumIsNat
  <2>6. r[k] = Sum(v, S) /\ a[k] = allocatable[n][k] - r[k]
    BY <1>1, <2>1 DEF Balanced
  <2>7. a[k] \in Nat /\ r[k] \in Nat /\ allocatable[n][k] \in Nat /\ r[k] >= need
    <3>1. a[k] \in Nat /\ r[k] \in Nat
      BY <1>2
    <3>2. allocatable[n][k] \in Nat
      BY PlaceAssumption
    <3> QED BY <2>2, <2>4, <2>5, <2>6, <3>1, <3>2
  <2>8. p[k] = r[k] - need
    BY <1>2, <1>3, <2>1, <2>7, QuantityTaken
  <2>9. q[k] = a[k] + need
    BY <1>2, <1>3, <2>1, QuantityAdded
  <2> QED BY <2>1, <2>2, <2>4, <2>5, <2>6, <2>7, <2>8, <2>9
<1>8. PICK new : new = BookRemove(book, b, s)
  OBVIOUS
<1>9. new.Sandboxes = S \ {b} /\ new.requested = p /\ new.available = q
  BY <1>5, <1>8
<1>10. Balanced(new, s, n)
  BY <1>7, <1>9 DEF Balanced
<1>11. \A k \in ResourceNames :
          a[k] \in Nat /\ new.available[k] \in Nat /\ new.available[k] >= a[k]
  BY <1>7, <1>9
<1> QED BY <1>1, <1>6, <1>8, <1>10, <1>11

LEMMA AddKeeps ==
    ASSUME BInv, NEW b \in PlacedBoxes, NodeAddSandbox(b)
    PROVE  BInv'
<1>0. /\ spec \in [PlacedBoxes -> PlaceSpecs] /\ info \in [PlaceNodes -> Books]
      /\ place \in [PlacedBoxes -> PlaceNodes \cup {Nowhere}]
      /\ UNCHANGED <<spec, place>> /\ ~ Entered(b)
  BY DEF BInv, PlaceTypeOK, NodeAddSandbox
<1>1. PICK n : n = place[b]
  OBVIOUS
<1>2. /\ n \in PlaceNodes /\ b \notin info[n].Sandboxes
      /\ Fits(info[n].available, spec[b].req)
  BY <1>0, <1>1 DEF Entered, BInv, Booked
<1>3. info' = [info EXCEPT ![n] = BookAdd(info[n], b, spec)]
  BY <1>0, <1>1, <1>2 DEF NodeAddSandbox, BookAdd
<1>4. /\ info'[n] = BookAdd(info[n], b, spec)
      /\ \A m \in PlaceNodes \ {n} : info'[m] = info[m]
  BY <1>0, <1>2, <1>3
<1>5. \A m \in PlaceNodes : Balanced(info[m], spec, m)
  BY BalancedIs DEF BInv, PlacementSafe
<1>6. BookAdd(info[n], b, spec) \in Books /\ Balanced(BookAdd(info[n], b, spec), spec, n)
  <2>1. PICK s, book : s = spec /\ book = info[n]
    OBVIOUS
  <2>2. /\ book \in Books /\ s \in [PlacedBoxes -> PlaceSpecs] /\ Balanced(book, s, n)
        /\ b \notin book.Sandboxes /\ Fits(book.available, s[b].req)
    BY <1>0, <1>2, <1>5, <2>1
  <2>3. BookAdd(book, b, s) \in Books /\ Balanced(BookAdd(book, b, s), s, n)
    BY <1>2, <2>2, BookAddKeeps
  <2> QED BY <2>1, <2>3
<1>7. PlaceTypeOK'
  BY <1>0, <1>2, <1>3, <1>6 DEF PlaceTypeOK
<1>8. NodeBalanced'
  <2>1. \A m \in PlaceNodes : Balanced(info'[m], spec', m)
    BY <1>0, <1>4, <1>5, <1>6
  <2> QED BY <1>7, <2>1, BalancedIs
<1>9. info'[n].Sandboxes = info[n].Sandboxes \cup {b}
  BY <1>4 DEF BookAdd
<1>10. \A a \in PlacedBoxes : Entered(a)'
  <2> SUFFICES ASSUME NEW a \in PlacedBoxes, place[a] # Nowhere
               PROVE  a \in info'[place[a]].Sandboxes
    BY <1>0 DEF Entered
  <2>1. CASE a = b
    BY <1>1, <1>9, <2>1
  <2>2. CASE a # b
    <3>1. Entered(a)
      BY <1>0, <2>2 DEF BInv, Booked
    <3>2. a \in info[place[a]].Sandboxes /\ place[a] \in PlaceNodes
      BY <1>0, <3>1 DEF Entered
    <3> QED BY <1>4, <1>9, <3>2
  <2> QED BY <2>1, <2>2
<1>11. \A m \in PlaceNodes : \A a \in info'[m].Sandboxes : place'[a] = m
  BY <1>0, <1>1, <1>4, <1>9 DEF BInv, Booked
<1>12. PlacedWell'
  BY <1>0 DEF BInv, PlacementSafe, PlacedWell
<1> QED BY <1>7, <1>8, <1>10, <1>11, <1>12 DEF BInv, Booked, PlacementSafe

LEMMA RemoveKeeps ==
    ASSUME BInv, NEW b \in PlacedBoxes, NodeRemoveSandbox(b)
    PROVE  BInv'
<1>0. /\ spec \in [PlacedBoxes -> PlaceSpecs] /\ info \in [PlaceNodes -> Books]
      /\ place \in [PlacedBoxes -> PlaceNodes \cup {Nowhere}]
      /\ UNCHANGED spec /\ place' = [place EXCEPT ![b] = Nowhere]
  BY DEF BInv, PlaceTypeOK, NodeRemoveSandbox
<1>1. PICK n : n = place[b]
  OBVIOUS
<1>2. n \in PlaceNodes /\ b \in info[n].Sandboxes
  BY <1>0, <1>1 DEF NodeRemoveSandbox, Entered
<1>3. info' = [info EXCEPT ![n] = BookRemove(info[n], b, spec)]
  BY <1>0, <1>1, <1>2 DEF NodeRemoveSandbox, BookRemove
<1>4. /\ info'[n] = BookRemove(info[n], b, spec)
      /\ \A m \in PlaceNodes \ {n} : info'[m] = info[m]
      /\ place'[b] = Nowhere /\ \A a \in PlacedBoxes \ {b} : place'[a] = place[a]
  BY <1>0, <1>2, <1>3
<1>5. \A m \in PlaceNodes : Balanced(info[m], spec, m)
  BY BalancedIs DEF BInv, PlacementSafe
<1>6. /\ BookRemove(info[n], b, spec) \in Books /\ Balanced(BookRemove(info[n], b, spec), spec, n)
      /\ \A k \in ResourceNames :
            /\ info[n].available[k] \in Nat /\ info'[n].available[k] \in Nat
            /\ info'[n].available[k] >= info[n].available[k]
  <2>1. PICK s, book : s = spec /\ book = info[n]
    OBVIOUS
  <2>2. /\ book \in Books /\ s \in [PlacedBoxes -> PlaceSpecs] /\ Balanced(book, s, n)
        /\ b \in book.Sandboxes
    BY <1>0, <1>2, <1>5, <2>1
  <2>3. /\ BookRemove(book, b, s) \in Books /\ Balanced(BookRemove(book, b, s), s, n)
        /\ \A k \in ResourceNames :
              /\ book.available[k] \in Nat /\ BookRemove(book, b, s).available[k] \in Nat
              /\ BookRemove(book, b, s).available[k] >= book.available[k]
    BY <1>2, <2>2, BookRemoveKeeps
  <2> QED BY <1>4, <2>1, <2>3
<1>7. PlaceTypeOK'
  BY <1>0, <1>2, <1>3, <1>6 DEF PlaceTypeOK
<1>8. NodeBalanced'
  <2>1. \A m \in PlaceNodes : Balanced(info'[m], spec', m)
    BY <1>0, <1>4, <1>5, <1>6
  <2> QED BY <1>7, <2>1, BalancedIs
<1>9. info'[n].Sandboxes = info[n].Sandboxes \ {b}
  BY <1>4 DEF BookRemove
<1>10. \A a \in PlacedBoxes : ~ Entered(a)' => a # b /\ ~ Entered(a) /\ place'[a] = place[a]
  <2> SUFFICES ASSUME NEW a \in PlacedBoxes, ~ Entered(a)'
               PROVE  a # b /\ ~ Entered(a) /\ place'[a] = place[a]
    OBVIOUS
  <2>1. a # b /\ place'[a] = place[a] /\ place[a] \in PlaceNodes /\ a \notin info'[place[a]].Sandboxes
    BY <1>0, <1>4 DEF Entered
  <2>2. a \notin info[place[a]].Sandboxes
    BY <1>4, <1>9, <2>1
  <2> QED BY <2>1, <2>2, PlaceAssumption DEF Entered
<1>11. \A m \in PlaceNodes : \A a \in info'[m].Sandboxes : place'[a] = m
  <2> SUFFICES ASSUME NEW m \in PlaceNodes, NEW a \in info'[m].Sandboxes PROVE place'[a] = m
    OBVIOUS
  <2>1. a \in info[m].Sandboxes
    BY <1>4, <1>9
  <2>2. place[a] = m /\ a \in PlacedBoxes
    BY <1>0, <2>1 DEF BInv, Booked, Books
  <2>3. a # b
    BY <1>1, <1>4, <1>9, <2>1, <2>2
  <2> QED BY <1>4, <2>2, <2>3
<1>12. \A a \in PlacedBoxes : ~ Entered(a)' => Fits(info'[place'[a]].available, spec'[a].req)
  <2> SUFFICES ASSUME NEW a \in PlacedBoxes, ~ Entered(a)'
               PROVE  Fits(info'[place[a]].available, spec[a].req)
    BY <1>0, <1>10
  <2>1. Fits(info[place[a]].available, spec[a].req) /\ place[a] \in PlaceNodes
    BY <1>0, <1>10 DEF BInv, Booked, Entered
  <2>2. CASE place[a] # n
    BY <1>4, <2>1, <2>2
  <2>3. CASE place[a] = n
    <3> SUFFICES ASSUME NEW k \in ResourceNames, Parses(spec[a].req[k])
                 PROVE  info'[n].available[k] >= spec[a].req[k]
      BY <2>3 DEF Fits
    <3>1. spec[a].req[k] \in Nat /\ info[n].available[k] >= spec[a].req[k]
      BY <1>0, <2>1, <2>3, NeedsNat DEF Fits
    <3> QED BY <1>6, <3>1
  <2> QED BY <2>2, <2>3
<1>13. PlacedWell'
  <2>1. \A a \in PlacedBoxes : place[a] # Nowhere => Suits(spec[a], place[a])
    BY PlacedWellIs DEF BInv, PlacementSafe
  <2>2. \A a \in PlacedBoxes : place'[a] # Nowhere => Suits(spec'[a], place'[a])
    BY <1>0, <1>4, <2>1
  <2> QED BY <2>2 DEF PlacedWell, Suits, Meets, Label
<1> QED BY <1>7, <1>8, <1>10, <1>11, <1>12, <1>13 DEF BInv, Booked, PlacementSafe

\* Whatever order sandboxes are placed, entered and taken off in, a node's requested
\* and available resources add up to what it has, and no sandbox is on a node without
\* its runtime or its labels, or that it asked to be kept away from.  Required labels
\* are those that are written with the operators that the filter knows.
THEOREM PlacementAlwaysSafe ==
    ASSUME KnownOperators PROVE PlaceSpec => []PlacementSafe
<1>1. PlaceInit => BInv
  BY PlaceInitInv
<1>2. BInv /\ [PlaceNext]_placeVars => BInv'
  <2> SUFFICES ASSUME BInv, [PlaceNext]_placeVars PROVE BInv'
    OBVIOUS
  <2>1. CASE PlaceNext
    BY <2>1, ScheduleKeeps, AddKeeps, RemoveKeeps DEF PlaceNext
  <2>2. CASE UNCHANGED placeVars
    <3>1. UNCHANGED <<spec, place, info>>
      BY <2>2 DEF placeVars
    <3>2. PlaceTypeOK' /\ Booked' /\ PlacedWell'
      BY <3>1 DEF BInv, PlaceTypeOK, Booked, Entered, PlacementSafe, PlacedWell
    <3>3. NodeBalanced'
      BY <3>1, <3>2, BalancedIs DEF BInv, PlacementSafe
    <3> QED BY <3>2, <3>3 DEF BInv, PlacementSafe
  <2> QED BY <2>1, <2>2
<1>3. BInv => PlacementSafe
  BY DEF BInv
<1> QED BY <1>1, <1>2, <1>3, PTL DEF PlaceSpec
=============================================================================
