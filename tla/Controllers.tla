---------------------------- MODULE Controllers ----------------------------
(***************************************************************************)
(* The loop that the sandbox, tenant and quota controllers have in common  *)
(* (pkg/controller): informer events put keys into a rate limited work     *)
(* queue, workers take them out, read the object from the informer's cache *)
(* and reconcile it.  Which of the three it is, is chosen at the start.    *)
(*                                                                         *)
(* The work queue and the informer are client-go's, modelled from what     *)
(* they promise: a key that is being processed is not handed out again     *)
(* before Done, and is then if it was added meanwhile.  An event is        *)
(* delivered some time after the cache has changed.                        *)
(***************************************************************************)
EXTENDS Integers, Sequences, FiniteSets

CONSTANTS
    Objects,     \* names of the API objects
    Workers,     \* concurrentWorkers
    maxRetries,
    Namespaced,  \* whether the objects have a namespace
    NoObject,
    MaxChanges   \* bound on the changes of the API objects

ASSUME ControllersAssumption ==
    /\ maxRetries \in Nat /\ MaxChanges \in Nat
    /\ Namespaced \in BOOLEAN
    /\ NoObject \notin Objects

VARIABLES
    kind,        \* which controller
    cache,       \* the informer's cache: phase and version of an object
    changes,     \* changes of the objects so far
    events,      \* keys of events that are not delivered yet
    queue, dirty, processing, requeues, delayed, down,  \* the work queue
    worker,      \* where a worker is, its key, the object and the handle it has
    quota,       \* the version of the quota that is registered; 0: none
    handle,      \* runtimeManager.handles; 0: none
    marked,      \* the handle MarkSandboxRunning was last called with
    gaveUp       \* history: objects whose current version the controller gave up

wqVars == <<queue, dirty, processing, requeues, delayed, down>>
resultVars == <<quota, handle, marked, gaveUp>>
controllerVars == <<kind, cache, changes, events, wqVars, worker, resultVars>>

\* The key of the cache is "namespace/name", or "name" without a namespace.
\* onTenantAdd and onTenantUpdate always put the slash in.
CacheKey(o) == [of |-> o, slash |-> Namespaced]
EventKey(o) == [of |-> o, slash |-> TRUE]
EventKeys == {EventKey(o) : o \in Objects} \cup {CacheKey(o) : o \in Objects}

Phases == CASE kind = "tenant" -> {"Pending", "Active", "Suspended", "Terminating"}
            [] kind = "quota" -> {"Active"}
            [] OTHER -> {"Pending", "Creating", "Stopping", "Terminating"}

Idle == [at |-> "idle", key |-> NoObject, obj |-> NoObject, handle |-> 0]

ControllersInit ==
    /\ kind \in {"tenant", "quota", "sandbox"}
    /\ cache = [o \in Objects |-> NoObject]
    /\ events = {} /\ queue = <<>> /\ dirty = {} /\ processing = {}
    /\ requeues = [k \in EventKeys |-> 0]
    /\ delayed = {} /\ down = FALSE
    /\ worker = [w \in Workers |-> Idle]
    /\ quota = [o \in Objects |-> 0]
    /\ handle = [o \in Objects |-> 0]
    /\ marked = [o \in Objects |-> 0]
    /\ changes = 0 /\ gaveUp = {}

-----------------------------------------------------------------------------
(* The API objects and the informer *)

\* An object is created or changed, and an event is under way.
ObjectChanges(o) ==
    /\ changes < MaxChanges
    /\ changes' = changes + 1
    /\ \E p \in Phases : cache' = [cache EXCEPT ![o] = [phase |-> p, version |-> changes + 1]]
    /\ events' = events \cup {EventKey(o)}
    /\ gaveUp' = gaveUp \ {o}
    /\ UNCHANGED <<kind, wqVars, worker, quota, handle, marked>>

\* onSandboxDelete and its like take the key from the cache's own function.
ObjectDeleted(o) ==
    /\ cache[o] # NoObject /\ changes < MaxChanges
    /\ changes' = changes + 1
    /\ cache' = [cache EXCEPT ![o] = NoObject]
    /\ events' = events \cup {CacheKey(o)}
    /\ gaveUp' = gaveUp \ {o}
    /\ UNCHANGED <<kind, wqVars, worker, quota, handle, marked>>

-----------------------------------------------------------------------------
(* The work queue *)

Add(k) ==
    LET new == ~ down /\ k \notin dirty IN
    /\ dirty' = IF new THEN dirty \cup {k} ELSE dirty
    /\ queue' = IF new /\ k \notin processing THEN Append(queue, k) ELSE queue

\* onSandboxAdd, onTenantAdd, onQuotaAdd and the handlers of updates and deletions.
onEvent(k) ==
    /\ k \in events
    /\ events' = events \ {k}
    /\ Add(k)
    /\ UNCHANGED <<kind, cache, changes, processing, requeues, delayed, down, worker, resultVars>>

\* The delay of AddRateLimited is over.
DelayEnds(k) ==
    /\ k \in delayed
    /\ delayed' = delayed \ {k}
    /\ Add(k)
    /\ UNCHANGED <<kind, cache, changes, events, processing, requeues, down, worker, resultVars>>

\* Mutant: the key is given back before it is synced.
GetAndDone(w) ==
    /\ worker[w].at = "idle" /\ queue # <<>>
    /\ queue' = Tail(queue)
    /\ dirty' = dirty \ {Head(queue)}
    /\ worker' = [worker EXCEPT ![w] = [Idle EXCEPT !.at = "sync", !.key = Head(queue)]]
    /\ UNCHANGED <<kind, cache, changes, events, processing, requeues, delayed, down, resultVars>>

Get(w) ==
    /\ worker[w].at = "idle" /\ queue # <<>>
    /\ queue' = Tail(queue)
    /\ dirty' = dirty \ {Head(queue)}
    /\ processing' = processing \cup {Head(queue)}
    /\ worker' = [worker EXCEPT ![w] = [Idle EXCEPT !.at = "sync", !.key = Head(queue)]]
    /\ UNCHANGED <<kind, cache, changes, events, requeues, delayed, down, resultVars>>

\* Get says quit once the queue is shut down and empty; worker returns, and
\* wait.Until does not call it again since stopCh is closed.
Quit(w) ==
    /\ worker[w].at = "idle" /\ queue = <<>> /\ down
    /\ worker' = [worker EXCEPT ![w].at = "ended"]
    /\ UNCHANGED <<kind, cache, changes, events, wqVars, resultVars>>

StopQueue ==
    /\ ~ down
    /\ down' = TRUE /\ delayed' = {}
    /\ UNCHANGED <<kind, cache, changes, events, queue, dirty, processing, requeues, worker, resultVars>>

-----------------------------------------------------------------------------
(* processNextWorkItem *)

\* The deferred Done, on which a key that was added meanwhile is queued.
Done(w) ==
    LET k == worker[w].key IN
    /\ processing' = processing \ {k}
    /\ queue' = IF k \in dirty THEN Append(queue, k) ELSE queue
    /\ worker' = [worker EXCEPT ![w] = Idle]

Succeeds(w) ==
    /\ requeues' = [requeues EXCEPT ![worker[w].key] = 0]
    /\ Done(w)
    /\ UNCHANGED <<kind, cache, changes, events, dirty, delayed, down, gaveUp>>

\* Mutant: an error is only logged.
FailsQuietly(w) ==
    /\ Done(w)
    /\ UNCHANGED <<kind, cache, changes, events, dirty, requeues, delayed, down, gaveUp>>

Fails(w) ==
    LET k == worker[w].key IN
    /\ IF requeues[k] < maxRetries
       THEN /\ requeues' = [requeues EXCEPT ![k] = @ + 1]
            /\ delayed' = IF down THEN delayed ELSE delayed \cup {k}
            /\ UNCHANGED gaveUp
       ELSE /\ requeues' = [requeues EXCEPT ![k] = 0]
            /\ gaveUp' = IF cache[k.of] = worker[w].obj THEN gaveUp \cup {k.of} ELSE gaveUp
            /\ UNCHANGED delayed
    /\ Done(w)
    /\ UNCHANGED <<kind, cache, changes, events, dirty, down>>

Goes(w, where, o) ==
    /\ worker' = [worker EXCEPT ![w].at = where, ![w].obj = o]
    /\ UNCHANGED <<kind, cache, changes, events, wqVars, gaveUp>>

\* syncSandbox, syncTenant and syncQuota read the cache.  Of an object that is
\* not there, only the tenant controller removes something, and it does so under
\* the key, which is the tenant's name only if it has no slash.
sync(w) ==
    LET k == worker[w].key
        o == IF k = CacheKey(k.of) THEN cache[k.of] ELSE NoObject IN
    /\ worker[w].at = "sync"
    /\ IF o = NoObject
       THEN /\ quota' = IF kind = "tenant" /\ ~ k.slash THEN [quota EXCEPT ![k.of] = 0] ELSE quota
            /\ Succeeds(w)
       ELSE Goes(w, "reconcile", o) /\ UNCHANGED quota
    /\ UNCHANGED <<handle, marked>>

\* reconcileQuota registers the quota, which fails if it cannot be parsed.
reconcileQuota(w) ==
    LET o == worker[w].obj  t == worker[w].key.of IN
    /\ kind = "quota" /\ worker[w].at = "reconcile"
    /\ \/ /\ quota' = [quota EXCEPT ![t] = o.version]
          /\ Succeeds(w)
       \/ Fails(w) /\ UNCHANGED quota
    /\ UNCHANGED <<handle, marked>>

\* reconcilePendingTenant and reconcileActiveTenant do so too; a pending tenant is
\* then registered.
reconcileTenant(w) ==
    LET o == worker[w].obj  t == worker[w].key.of IN
    /\ kind = "tenant" /\ worker[w].at = "reconcile"
    /\ \/ /\ o.phase \in {"Pending", "Active"}
          /\ quota' = [quota EXCEPT ![t] = o.version]
          /\ IF o.phase = "Pending" THEN Goes(w, "register", o) ELSE Succeeds(w)
       \/ /\ o.phase \in {"Pending", "Active"}
          /\ Fails(w) /\ UNCHANGED quota
       \/ /\ o.phase = "Suspended"
          /\ Succeeds(w) /\ UNCHANGED quota
       \/ /\ o.phase = "Terminating"
          /\ quota' = [quota EXCEPT ![t] = 0]
          /\ Succeeds(w)
    /\ UNCHANGED <<handle, marked>>

RegisterTenant(w) ==
    /\ kind = "tenant" /\ worker[w].at = "register"
    /\ Succeeds(w) \/ Fails(w)
    /\ UNCHANGED <<quota, handle, marked>>

\* A handle that nobody refers to any more.
FreshHandle ==
    CHOOSE h \in 1..(2 * Cardinality(Objects) + Cardinality(Workers) + 1) :
        /\ \A o \in Objects : handle[o] # h /\ marked[o] # h
        /\ \A w \in Workers : worker[w].handle # h

\* reconcileCreatingSandbox: CreateRuntime, StartRuntime, MarkSandboxRunning.
\* After a failure all three are tried again, with another handle.
reconcileCreatingSandbox(w) ==
    LET s == worker[w].key.of IN
    /\ kind = "sandbox" /\ worker[w].obj # NoObject /\ worker[w].obj.phase = "Creating"
    /\ \/ /\ worker[w].at = "reconcile"
          /\ handle' = [handle EXCEPT ![s] = FreshHandle]
          /\ worker' = [worker EXCEPT ![w].at = "start", ![w].handle = FreshHandle]
          /\ UNCHANGED <<kind, cache, changes, events, wqVars, gaveUp, marked>>
       \/ /\ worker[w].at = "start" /\ handle[s] # 0
          /\ Goes(w, "mark", worker[w].obj) /\ UNCHANGED <<handle, marked>>
       \/ /\ worker[w].at = "mark"
          /\ marked' = [marked EXCEPT ![s] = worker[w].handle]
          /\ Succeeds(w) /\ UNCHANGED handle
       \/ /\ worker[w].at \in {"reconcile", "start", "mark"}
          /\ Fails(w) /\ UNCHANGED <<handle, marked>>
    /\ UNCHANGED quota

\* The other phases.  StopRuntime fails if there is no runtime; RemoveRuntime
\* does not.  Both release the tenant's resources, every time they are reconciled.
reconcileSandbox(w) ==
    LET s == worker[w].key.of  p == worker[w].obj.phase IN
    /\ kind = "sandbox" /\ worker[w].at = "reconcile"
    /\ \/ /\ p \in {"Pending", "Stopping"} /\ (p = "Stopping" => handle[s] # 0)
          /\ Succeeds(w) /\ UNCHANGED handle
       \/ p = "Stopping" /\ Fails(w) /\ UNCHANGED handle
       \/ /\ p = "Terminating"
          /\ handle' = [handle EXCEPT ![s] = 0]
          /\ Succeeds(w)
    /\ UNCHANGED <<quota, marked>>

-----------------------------------------------------------------------------
Work(w) ==
    \/ Get(w) \/ Quit(w) \/ sync(w)
    \/ reconcileQuota(w) \/ reconcileTenant(w) \/ RegisterTenant(w)
    \/ reconcileCreatingSandbox(w) \/ reconcileSandbox(w)

ControllersNext ==
    \/ \E o \in Objects : ObjectChanges(o) \/ ObjectDeleted(o)
    \/ \E k \in EventKeys : onEvent(k) \/ DelayEnds(k)
    \/ \E w \in Workers : Work(w)
    \/ StopQueue

\* The informer's listener, the queue's delaying goroutine and the workers run.
ControllersFairness ==
    /\ \A k \in EventKeys : WF_controllerVars(onEvent(k)) /\ WF_controllerVars(DelayEnds(k))
    /\ \A w \in Workers : WF_controllerVars(Work(w))

ControllersSpec ==
    ControllersInit /\ [][ControllersNext]_controllerVars /\ ControllersFairness

-----------------------------------------------------------------------------
\* The handle with which a sandbox is marked running is the runtime manager's, or
\* the runtime was made again or removed since: no other worker's sync of the same
\* sandbox comes in between CreateRuntime and MarkSandboxRunning.
MarkedIsCurrent ==
    \A w \in Workers : worker[w].at \in {"start", "mark"} =>
        handle[worker[w].key.of] = worker[w].handle

\* What the last version of an object asks of the controller is done.
Applied(o) ==
    LET p == cache[o].phase IN
    CASE kind = "sandbox" -> /\ p = "Creating" => handle[o] # 0 /\ marked[o] = handle[o]
                             /\ p = "Terminating" => handle[o] = 0
      [] OTHER -> /\ p \in {"Pending", "Active"} => quota[o] = cache[o].version
                  /\ p = "Terminating" => quota[o] = 0

\* The controllers apply the last version of every object, or give it up after
\* their retries: an event that comes while the object is being synced, and an
\* error that is retried while events come, are not lost.
ObjectsApplied ==
    \A o \in Objects : <>[](\/ down \/ cache[o] = NoObject
                            \/ Applied(o) \/ o \in gaveUp)

\* Stop ends every worker, also the ones that wait for a key.
WorkersEnd == down ~> \A w \in Workers : worker[w].at = "ended"
=============================================================================
