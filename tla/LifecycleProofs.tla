-------------------------- MODULE LifecycleProofs ---------------------------
(***************************************************************************)
(* Proofs about the lifecycle manager, for any sandboxes, tenants, nodes,  *)
(* specs and retry limit and any set of external moves: the types, where a *)
(* sandbox is placed, the bound of the retries, and that the quota never   *)
(* counts more than the tenant uses.  What Placed and RetriesBounded say   *)
(* is local to a SandboxState, so they are proved as one predicate Good of *)
(* it that every method and every loop keeps. Then come the snapshot       *)
(* manager, state recovery with migration, and the gateway's shell         *)
(* sessions with the ring buffers of their output.                         *)
(***************************************************************************)
EXTENDS Lifecycle, Snapshots, StateRecovery, ShellSessions, RecursionTheorems, SequenceTheorems,
        TenantAccountingProofs

\* The phases of a sandbox that runs or has run and was not taken away.
Ran == {"Running", "Pausing", "Paused", "Resuming", "Stopping", "Stopped"}

Good(st) ==
    /\ st \in States
    /\ st.phase \in Ran => st.handle /\ st.node = st.scheduled /\ st.node # NoNode
    /\ st.phase = "Evicted" => st.node = NoNode /\ ~ st.handle
    /\ st.phase = "Creating" => st.scheduled # NoNode
    /\ st.retryCount <= maxRetryCount
    /\ st.retryCount = maxRetryCount => st.phase \in {"Failed", "Terminating"}

AllGood ==
    /\ sandboxes \in [Keys -> States \cup {Absent}]
    /\ \A k \in Keys : Managed(k) => Good(sandboxes[k])

LInv == AInv /\ AllGood

-----------------------------------------------------------------------------
(* Phases and states *)

AllPhases == Ran \cup {"Pending", "Scheduling", "Creating", "Evicted", "Failed", "Terminating"}

LEMMA PhaseNames == SandboxPhases = AllPhases
<1>1. \A m \in validTransitions : m[1] \in AllPhases
  BY DEF validTransitions, AllPhases, Ran
<1>2. /\ <<"Pending", "Failed">> \in validTransitions
      /\ <<"Scheduling", "Failed">> \in validTransitions
      /\ <<"Creating", "Failed">> \in validTransitions
      /\ <<"Running", "Failed">> \in validTransitions
      /\ <<"Pausing", "Failed">> \in validTransitions
      /\ <<"Paused", "Stopping">> \in validTransitions
  BY DEF validTransitions
<1>3. /\ <<"Resuming", "Failed">> \in validTransitions
      /\ <<"Stopping", "Failed">> \in validTransitions
      /\ <<"Stopped", "Creating">> \in validTransitions
      /\ <<"Evicted", "Pending">> \in validTransitions
      /\ <<"Failed", "Pending">> \in validTransitions
  BY DEF validTransitions
<1>4. \A p, q : <<p, q>> \in validTransitions => p \in SandboxPhases
  <2> TAKE p, q
  <2> HAVE <<p, q>> \in validTransitions
  <2> DEFINE m == <<p, q>>
  <2>1. m \in validTransitions /\ m[1] = p
    OBVIOUS
  <2> HIDE DEF m
  <2> QED BY <2>1 DEF SandboxPhases
<1>5. AllPhases \subseteq SandboxPhases
  <2>1. "Terminating" \in SandboxPhases
    BY DEF SandboxPhases
  <2> QED BY <1>2, <1>3, <1>4, <2>1 DEF AllPhases, Ran
<1>6. SandboxPhases \subseteq AllPhases
  BY <1>1 DEF SandboxPhases, AllPhases
<1> QED BY <1>5, <1>6

\* What the table says of the moves the methods try.
LEMMA Refusals ==
    ASSUME NEW p
    PROVE  /\ <<p, "Failed">> \in validTransitions => p \notin {"Failed", "Terminating", "Evicted"}
           /\ <<p, "Evicted">> \in validTransitions => p = "Running"
           /\ <<p, "Creating">> \in validTransitions => p \in {"Scheduling", "Stopped"}
BY DEF validTransitions

LEMMA MovedFields ==
    ASSUME NEW st \in States, NEW to \in SandboxPhases
    PROVE  /\ Moved(st, to) \in States
           /\ Moved(st, to).phase = to
           /\ Moved(st, to).retryCount = st.retryCount
           /\ Moved(st, to).handle = st.handle
           /\ Moved(st, to).node = st.node
           /\ Moved(st, to).scheduled = st.scheduled
           /\ Moved(st, to).deleting = st.deleting
BY DEF Moved, States

\* Fields that Good does not look at.
LEMMA TargetSet ==
    ASSUME NEW st, Good(st), NEW p \in SandboxPhases
    PROVE  Good([st EXCEPT !.target = p])
BY DEF Good, States

LEMMA FlagSet ==
    ASSUME NEW st, Good(st), NEW v \in BOOLEAN
    PROVE  /\ Good([st EXCEPT !.deleting = v])
           /\ Good([st EXCEPT !.overdue = v])
           /\ Good([st EXCEPT !.expiry = "past"])
           /\ [st EXCEPT !.deleting = v].phase = st.phase
BY DEF Good, States

LEMMA SpecSet ==
    ASSUME NEW st, Good(st), NEW spec \in SandboxSpecs
    PROVE  Good([st EXCEPT !.spec = spec])
BY DEF Good, States

\* The moves that change nothing but the phase.
LEMMA MovedGood ==
    ASSUME NEW st, Good(st), NEW to \in SandboxPhases,
           \/ to \in {"Pending", "Scheduling"} /\ st.retryCount < maxRetryCount
           \/ to = "Creating" /\ st.scheduled # NoNode /\ st.phase \notin {"Failed", "Terminating"}
           \/ to \in {"Failed", "Terminating"}
           \/ to \in Ran /\ st.phase \in Ran
    PROVE  Good(Moved(st, to))
<1> DEFINE m == Moved(st, to)
<1>1. /\ m \in States /\ m.phase = to /\ m.retryCount = st.retryCount
      /\ m.handle = st.handle /\ m.node = st.node /\ m.scheduled = st.scheduled
  BY MovedFields DEF Good
<1>2. st.retryCount \in Nat /\ st.phase \in AllPhases
  BY PhaseNames DEF Good, States
<1> HIDE DEF m
<1>3. m.phase \in Ran => m.handle /\ m.node = m.scheduled /\ m.node # NoNode
  BY <1>1 DEF Good, Ran
<1>4. m.phase \notin {"Evicted"}
  BY <1>1 DEF Ran
<1>5. m.phase = "Creating" => m.scheduled # NoNode
  BY <1>1 DEF Ran
<1>6. m.retryCount <= maxRetryCount
      /\ (m.retryCount = maxRetryCount => m.phase \in {"Failed", "Terminating"})
  BY <1>1, <1>2, RetryAssumption DEF Good, Ran
<1> QED BY <1>1, <1>3, <1>4, <1>5, <1>6 DEF Good, m

LEMMA NewGood ==
    ASSUME NEW spec \in SandboxSpecs
    PROVE  Good(NewState(spec))
<1>1. NewState(spec) \in States
  BY PhaseNames DEF NewState, States, AllPhases, Ran
<1> QED BY <1>1, RetryAssumption DEF Good, NewState, Ran

LEMMA EvictedGood ==
    ASSUME NEW st, Good(st), st.phase = "Running"
    PROVE  Good([Moved(st, "Evicted") EXCEPT !.node = NoNode, !.handle = FALSE])
<1> DEFINE m == Moved(st, "Evicted")
           e == [m EXCEPT !.node = NoNode, !.handle = FALSE]
<1>1. m \in States /\ m.phase = "Evicted" /\ m.retryCount = st.retryCount
  BY MovedFields, PhaseNames DEF Good, AllPhases
<1> HIDE DEF m
<1>2. e \in States /\ e.phase = "Evicted" /\ e.retryCount = st.retryCount
      /\ e.node = NoNode /\ ~ e.handle
  BY <1>1 DEF States
<1> HIDE DEF e
<1>3. st.retryCount <= maxRetryCount /\ st.retryCount # maxRetryCount
  BY DEF Good
<1>4. Good(e)
  BY <1>2, <1>3 DEF Good, Ran
<1> QED BY <1>4 DEF e, m

LEMMA RunningGood ==
    ASSUME NEW st, Good(st), st.phase \in {"Creating", "Resuming"}
    PROVE  Good([Moved(st, "Running") EXCEPT !.handle = TRUE, !.node = st.scheduled])
<1> DEFINE m == Moved(st, "Running")
           e == [m EXCEPT !.handle = TRUE, !.node = st.scheduled]
<1>0. st.scheduled # NoNode /\ st.scheduled \in Nodes \cup {NoNode}
  BY DEF Good, Ran, States
<1>1. /\ m \in States /\ m.phase = "Running" /\ m.retryCount = st.retryCount
      /\ m.scheduled = st.scheduled
  BY MovedFields, PhaseNames DEF Good, AllPhases, Ran
<1> HIDE DEF m
<1>2. e \in States /\ e.phase = "Running" /\ e.retryCount = st.retryCount
      /\ e.node = st.scheduled /\ e.scheduled = st.scheduled /\ e.handle
  BY <1>0, <1>1 DEF States
<1> HIDE DEF e
<1>3. st.retryCount <= maxRetryCount /\ st.retryCount # maxRetryCount
  BY DEF Good
<1>4. Good(e)
  BY <1>0, <1>2, <1>3 DEF Good, Ran
<1> QED BY <1>4 DEF e, m

LEMMA FailedGood ==
    ASSUME NEW st, Good(st), <<st.phase, "Failed">> \in validTransitions
    PROVE  Good([Moved(st, "Failed") EXCEPT !.retryCount = @ + 1])
<1> DEFINE m == Moved(st, "Failed")
           e == [m EXCEPT !.retryCount = @ + 1]
<1>1. m \in States /\ m.phase = "Failed" /\ m.retryCount = st.retryCount
  BY MovedFields, PhaseNames DEF Good, AllPhases
<1> HIDE DEF m
<1>2. e \in States /\ e.phase = "Failed" /\ e.retryCount = st.retryCount + 1
  <2>1. PICK c \in Nat : c = m.retryCount + 1
    BY <1>1 DEF States
  <2>2. e = [m EXCEPT !.retryCount = c]
    BY <2>1
  <2> HIDE DEF e
  <2> QED BY <1>1, <2>1, <2>2 DEF States
<1> HIDE DEF e
<1>3. st.retryCount \in Nat /\ st.retryCount < maxRetryCount
  <2>1. st.phase \notin {"Failed", "Terminating"}
    BY Refusals
  <2>2. st.retryCount \in Nat /\ st.retryCount <= maxRetryCount
        /\ st.retryCount # maxRetryCount
    BY <2>1 DEF Good, States
  <2> QED BY <2>2, RetryAssumption
<1>4. Good(e)
  BY <1>2, <1>3, RetryAssumption DEF Good, Ran
<1> QED BY <1>4 DEF e, m

LEMMA ScheduledGood ==
    ASSUME NEW st, Good(st), NEW n \in Nodes, st.phase \in {"Pending", "Scheduling"}
    PROVE  /\ Good([st EXCEPT !.scheduled = n])
           /\ Good(Moved([st EXCEPT !.scheduled = n], "Creating"))
<1> DEFINE p == [st EXCEPT !.scheduled = n]
<1>1. p \in States /\ p.scheduled = n /\ p.phase = st.phase /\ p.retryCount = st.retryCount
  BY DEF Good, States
<1> HIDE DEF p
<1>2. Good(p)
  BY <1>1 DEF Good, Ran
<1>3. Good(Moved(p, "Creating"))
  BY <1>1, <1>2, MovedGood, PhaseNames, NoNodeAssumption DEF AllPhases
<1> QED BY <1>2, <1>3 DEF p

-----------------------------------------------------------------------------
(* One step *)

\* A step on one sandbox is right when its new state is.
LEMMA PutKeeps ==
    ASSUME AllGood, NEW k \in Keys, NEW st, st = Absent \/ Good(st), Put(k, st)
    PROVE  AllGood'
<1>1. st \in States \cup {Absent}
  BY DEF Good
<1> QED BY <1>1 DEF AllGood, Put, Managed

\* A loop is right when what it makes of each sandbox is.
LEMMA LoopKeeps ==
    ASSUME AllGood, sandboxes' = [k \in Keys |-> sandboxes'[k]],
           \A k \in Keys : sandboxes'[k] = Absent \/ Good(sandboxes'[k])
    PROVE  AllGood'
<1>1. \A k \in Keys : sandboxes'[k] \in States \cup {Absent}
  BY DEF Good
<1>2. sandboxes' \in [Keys -> States \cup {Absent}]
  BY <1>1
<1> QED BY <1>2 DEF AllGood, Managed

LEMMA ManagedGood ==
    ASSUME AllGood, NEW k \in Keys, Managed(k)
    PROVE  /\ Good(sandboxes[k])
           /\ sandboxes[k] \in States
           /\ sandboxes[k].spec \in SandboxSpecs
           /\ sandboxes[k].spec.tenant \in Tenants
           /\ sandboxes[k].spec.request \in Requests
           /\ sandboxes[k].node \in Nodes \cup {NoNode}
           /\ sandboxes[k].retryCount \in Nat
<1>1. Good(sandboxes[k]) /\ sandboxes[k] \in States
  BY DEF AllGood, Good
<1>2. sandboxes[k].spec \in SandboxSpecs /\ sandboxes[k].node \in Nodes \cup {NoNode}
      /\ sandboxes[k].retryCount \in Nat
  BY <1>1 DEF States
<1> QED BY <1>1, <1>2, SandboxSpecsAssumption

\* Releasing what a sandbox holds, or nothing.
LEMMA ReleaseStep ==
    ASSUME AInv, AllGood, NEW k \in Keys, Managed(k),
           NEW spec \in SandboxSpecs, Release(k, spec)
    PROVE  AInv'
<1>1. /\ spec.tenant \in Tenants /\ spec.request \in Requests
      /\ sandboxes[k].node \in Nodes \cup {NoNode}
  BY ManagedGood, SandboxSpecsAssumption
<1> QED BY <1>1, ReleaseResourcesKeeps, Unchanged DEF Release

\* The rollback of a refused schedule: an allocation and its release in one step.
LEMMA RollbackKeeps ==
    ASSUME AInv, NEW t \in Tenants, NEW n \in Nodes, NEW r \in Requests, Exists(t),
           tenants' = [tenants EXCEPT ![t] = Released(Allocated(tenants[t], n, r), n, r)],
           quotas' = [quotas EXCEPT ![t] = Refund(Charge(quotas[t], r), r)],
           UNCHANGED <<buckets, now, nextReset>>
    PROVE  AInv'
<1>1. Accounts(t, tenants[t], quotas[t], buckets[t]) /\ tenants[t] \in Infos
  BY AccountsNow DEF Exists, Accounts
<1>2. /\ Allocated(tenants[t], n, r) \in Infos
      /\ Charge(quotas[t], r) \in Quotas \cup {NoTenant}
      /\ Covered(Charge(quotas[t], r), Allocated(tenants[t], n, r))
  BY <1>1, AllocateKeeps DEF Accounts
<1>3. Accounts(t, Released(Allocated(tenants[t], n, r), n, r),
               Refund(Charge(quotas[t], r), r), buckets[t])
  BY <1>1, <1>2, ReleaseKeeps DEF Accounts
<1>4. buckets' = [buckets EXCEPT ![t] = buckets[t]]
  BY DEF AInv, AccountsOK
<1> QED BY <1>3, <1>4, OneTenant

\* A step that only changes sandboxes.
LEMMA QuietStep ==
    ASSUME LInv, AllGood', UNCHANGED tvars
    PROVE  LInv'
BY Unchanged DEF LInv

LEMMA CreateStep ==
    ASSUME LInv, NEW k \in Keys, NEW spec \in SandboxSpecs, CreateSandbox(k, spec)
    PROVE  LInv'
<1>1. spec.tenant \in Tenants /\ spec.request \in Requests
  BY SandboxSpecsAssumption
<1>2. AInv'
  BY <1>1, CanCreateKeeps DEF CreateSandbox, LInv
<1>3. AllGood'
  <2>1. Good(NewState(spec))
    BY NewGood
  <2>2. Put(k, NewState(spec)) \/ UNCHANGED sandboxes
    BY DEF CreateSandbox
  <2>3. CASE UNCHANGED sandboxes
    BY <2>3 DEF LInv, AllGood, Managed
  <2> QED BY <2>1, <2>2, <2>3, PutKeeps DEF LInv
<1> QED BY <1>2, <1>3 DEF LInv

\* The methods that move a sandbox and book nothing.
LEMMA MoveStep ==
    ASSUME LInv, NEW k \in Keys,
           \/ StartSandbox(k) \/ StopSandbox(k) \/ PauseSandbox(k) \/ DeleteSandbox(k)
           \/ MarkSandboxRunning(k) \/ DeadlinePasses(k) \/ LifetimeEnds(k)
    PROVE  LInv'
<1> USE PhaseNames DEF AllPhases
<1>0. AllGood /\ Managed(k)
  BY DEF LInv, StartSandbox, ResumeSandbox, StopSandbox, PauseSandbox, DeleteSandbox,
         MarkSandboxRunning, DeadlinePasses, LifetimeEnds, In
<1> DEFINE st == sandboxes[k]
<1>1. Good(st) /\ st \in States
  BY <1>0, ManagedGood
<1>2. UNCHANGED tvars
  BY DEF StartSandbox, ResumeSandbox, StopSandbox, PauseSandbox, DeleteSandbox,
         MarkSandboxRunning, DeadlinePasses, LifetimeEnds
<1>3. st.phase \in Ran => Good(Moved(st, "Resuming")) /\ Good(Moved(st, "Stopping"))
                          /\ Good(Moved(st, "Pausing"))
  BY <1>1, MovedGood DEF Ran
<1>4. CASE StartSandbox(k)
  <2>1. CASE ResumeSandbox(k)
    <3>1. Good(Moved(st, "Resuming"))
      BY <1>3, <2>1 DEF ResumeSandbox, In, Ran
    <3>2. Good([Moved(st, "Resuming") EXCEPT !.target = "Running"])
      BY <3>1, TargetSet DEF Ran
    <3>3. AllGood'
      BY <1>0, <2>1, <3>2, PutKeeps DEF ResumeSandbox
    <3> QED BY <1>2, <3>3, QuietStep
  <2>2. CASE In(k, {"Stopped"}) /\ Put(k, Moved(st, "Creating"))
    <3>1. st.scheduled # NoNode /\ st.phase \notin {"Failed", "Terminating"}
      BY <1>1, <2>2 DEF In, Good, Ran
    <3>2. Good(Moved(st, "Creating"))
      BY <1>1, <3>1, MovedGood
    <3>3. AllGood'
      BY <1>0, <2>2, <3>2, PutKeeps
    <3> QED BY <1>2, <3>3, QuietStep
  <2> QED BY <1>4, <2>1, <2>2 DEF StartSandbox
<1>5. CASE StopSandbox(k)
  <2>1. Good(Moved(st, "Stopping"))
    BY <1>3, <1>5 DEF StopSandbox, In, Ran
  <2>2. Good([Moved(st, "Stopping") EXCEPT !.target = "Stopped"])
    BY <2>1, TargetSet DEF Ran
  <2>3. AllGood'
    BY <1>0, <1>5, <2>2, PutKeeps DEF StopSandbox
  <2> QED BY <1>2, <2>3, QuietStep
<1>6. CASE PauseSandbox(k)
  <2>1. Good(Moved(st, "Pausing"))
    BY <1>3, <1>6 DEF PauseSandbox, In, Ran
  <2>2. Good([Moved(st, "Pausing") EXCEPT !.target = "Paused"])
    BY <2>1, TargetSet DEF Ran
  <2>3. AllGood'
    BY <1>0, <1>6, <2>2, PutKeeps DEF PauseSandbox
  <2> QED BY <1>2, <2>3, QuietStep
<1>7. CASE DeleteSandbox(k)
  <2> DEFINE marked == [st EXCEPT !.deleting = TRUE]
  <2>1. Good(marked) /\ marked.phase = st.phase
    BY <1>1, FlagSet
  <2> HIDE DEF marked
  <2>2. Good(Moved(marked, "Terminating"))
    BY <2>1, MovedGood
  <2>3. st.phase \in {"Running", "Paused"} => Good(Moved(marked, "Stopping"))
    BY <2>1, MovedGood DEF Ran
  <2>4. st.phase \in {"Running", "Paused"} =>
            Good([Moved(marked, "Stopping") EXCEPT !.target = "Terminating"])
    BY <2>3, TargetSet
  <2>5. \/ Put(k, marked)
        \/ Put(k, Moved(marked, "Terminating"))
        \/ /\ st.phase \in {"Running", "Paused"}
           /\ Put(k, [Moved(marked, "Stopping") EXCEPT !.target = "Terminating"])
    BY <1>7 DEF DeleteSandbox, marked
  <2>6. AllGood'
    BY <1>0, <2>1, <2>2, <2>4, <2>5, PutKeeps
  <2> QED BY <1>2, <2>6, QuietStep
<1>8. CASE MarkSandboxRunning(k)
  <2>1. Good([Moved(st, "Running") EXCEPT !.handle = TRUE, !.node = st.scheduled])
    BY <1>1, <1>8, RunningGood DEF MarkSandboxRunning, In
  <2>2. AllGood'
    BY <1>0, <1>8, <2>1, PutKeeps DEF MarkSandboxRunning
  <2> QED BY <1>2, <2>2, QuietStep
<1>9. CASE DeadlinePasses(k)
  <2>1. Good([st EXCEPT !.overdue = TRUE])
    BY <1>1, FlagSet
  <2>2. AllGood'
    BY <1>0, <1>9, <2>1, PutKeeps DEF DeadlinePasses
  <2> QED BY <1>2, <2>2, QuietStep
<1>10. CASE LifetimeEnds(k)
  <2>1. Good([st EXCEPT !.expiry = "past"])
    BY <1>1, FlagSet
  <2>2. AllGood'
    BY <1>0, <1>10, <2>1, PutKeeps DEF LifetimeEnds
  <2> QED BY <1>2, <2>2, QuietStep
<1> QED BY <1>4, <1>5, <1>6, <1>7, <1>8, <1>9, <1>10

\* The methods that release what the sandbox holds first.
LEMMA ReleasingStep ==
    ASSUME LInv, NEW k \in Keys,
           \/ EvictSandbox(k) \/ MarkSandboxFailed(k)
           \/ \E spec \in SandboxSpecs : onSandboxDelete(k, spec)
    PROVE  LInv'
<1>0. AInv /\ AllGood /\ Managed(k)
  BY DEF LInv, EvictSandbox, MarkSandboxFailed, onSandboxDelete, In
<1> DEFINE st == sandboxes[k]
<1>1. Good(st) /\ st.spec \in SandboxSpecs
  BY <1>0, ManagedGood
<1>2. (\E spec \in SandboxSpecs : Release(k, spec))
  BY <1>1 DEF EvictSandbox, MarkSandboxFailed, onSandboxDelete
<1>3. AInv'
  BY <1>0, <1>2, ReleaseStep
<1>4. CASE EvictSandbox(k)
  <2>1. CASE CanMove(k, "Evicted")
    <3>1. st.phase = "Running"
      BY <2>1, Refusals DEF CanMove
    <3>2. Good([Moved(st, "Evicted") EXCEPT !.node = NoNode, !.handle = FALSE])
      BY <1>1, <3>1, EvictedGood
    <3>3. AllGood'
      BY <1>0, <1>4, <2>1, <3>2, PutKeeps DEF EvictSandbox
    <3> QED BY <1>3, <3>3 DEF LInv
  <2>2. CASE ~ CanMove(k, "Evicted")
    <3>1. AllGood'
      BY <1>0, <1>1, <1>4, <2>2, PutKeeps DEF EvictSandbox
    <3> QED BY <1>3, <3>1 DEF LInv
  <2> QED BY <2>1, <2>2
<1>5. CASE MarkSandboxFailed(k)
  <2>1. CASE CanMove(k, "Failed")
    <3>1. Good([Moved(st, "Failed") EXCEPT !.retryCount = @ + 1])
      BY <1>1, <2>1, FailedGood DEF CanMove
    <3>2. AllGood'
      BY <1>0, <1>5, <2>1, <3>1, PutKeeps DEF MarkSandboxFailed
    <3> QED BY <1>3, <3>2 DEF LInv
  <2>2. CASE ~ CanMove(k, "Failed")
    <3>1. AllGood'
      BY <1>0, <1>1, <1>5, <2>2, PutKeeps DEF MarkSandboxFailed
    <3> QED BY <1>3, <3>1 DEF LInv
  <2> QED BY <2>1, <2>2
<1>6. CASE \E spec \in SandboxSpecs : onSandboxDelete(k, spec)
  <2>1. AllGood'
    BY <1>0, <1>6, PutKeeps DEF onSandboxDelete
  <2> QED BY <1>3, <2>1 DEF LInv
<1> QED BY <1>4, <1>5, <1>6

LEMMA ScheduleStep ==
    ASSUME LInv, NEW k \in Keys, NEW n \in Nodes, ScheduleSandbox(k, n)
    PROVE  LInv'
<1>0. /\ AInv /\ AllGood /\ Managed(k)
      /\ sandboxes[k].phase \in {"Pending", "Scheduling"}
  BY DEF LInv, ScheduleSandbox, In
<1>1. /\ Good(sandboxes[k])
      /\ sandboxes[k].spec.tenant \in Tenants
      /\ sandboxes[k].spec.request \in Requests
  BY <1>0, ManagedGood
<1> DEFINE placed == [sandboxes[k] EXCEPT !.scheduled = n]
<1>2. Good(placed) /\ Good(Moved(placed, "Creating"))
  BY <1>0, <1>1, ScheduledGood
<1>3. Put(k, placed) \/ Put(k, Moved(placed, "Creating"))
  BY DEF ScheduleSandbox
<1> HIDE DEF placed
<1>4. AllGood'
  BY <1>0, <1>2, <1>3, PutKeeps
<1>5. AInv'
  <2>1. CASE CanMove(k, "Creating")
    BY <1>0, <1>1, <2>1, AllocateResourcesKeeps DEF ScheduleSandbox
  <2>2. CASE ~ CanMove(k, "Creating")
    BY <1>0, <1>1, <2>2, RollbackKeeps DEF ScheduleSandbox
  <2> QED BY <2>1, <2>2
<1> QED BY <1>4, <1>5 DEF LInv

LEMMA UpdateStep ==
    ASSUME LInv, NEW k \in Keys, NEW spec \in SandboxSpecs, NEW deletion \in BOOLEAN,
           onSandboxUpdate(k, spec, deletion)
    PROVE  LInv'
<1>0. AllGood /\ Good(sandboxes[k])
  BY ManagedGood DEF LInv, onSandboxUpdate
<1> DEFINE st == [sandboxes[k] EXCEPT !.spec = spec]
           marked == [st EXCEPT !.deleting = TRUE]
<1>1. Good(st)
  BY <1>0, SpecSet
<1> HIDE DEF st
<1>2. Good(marked)
  BY <1>1, FlagSet
<1>3. [st EXCEPT !.deleting = TRUE, !.target = "Terminating"]
         = [marked EXCEPT !.target = "Terminating"]
  OBVIOUS
<1> HIDE DEF marked
<1>4. Good([marked EXCEPT !.target = "Terminating"])
  BY <1>2, TargetSet, PhaseNames DEF AllPhases
<1>5. Put(k, st) \/ Put(k, [st EXCEPT !.deleting = TRUE, !.target = "Terminating"])
  BY DEF onSandboxUpdate, st
<1>6. AllGood'
  BY <1>0, <1>1, <1>3, <1>4, <1>5, PutKeeps
<1> QED BY <1>6, QuietStep DEF onSandboxUpdate

LEMMA ExternalStep ==
    ASSUME LInv, NEW k \in Keys, NEW to \in {"Scheduling", "Paused"}, ExternalTransition(k, to)
    PROVE  LInv'
<1>0. AllGood /\ Good(sandboxes[k])
  BY ManagedGood DEF LInv, ExternalTransition
<1>1. \/ to = "Scheduling" /\ sandboxes[k].phase = "Pending"
      \/ to = "Paused" /\ sandboxes[k].phase = "Pausing"
  BY ExternalAssumption DEF ExternalTransition
<1>2. sandboxes[k].phase = "Pending" => sandboxes[k].retryCount < maxRetryCount
  <2>1. sandboxes[k].phase = "Pending" => sandboxes[k].retryCount # maxRetryCount
    BY <1>0 DEF Good
  <2>2. sandboxes[k].retryCount \in Nat /\ sandboxes[k].retryCount <= maxRetryCount
    BY <1>0 DEF Good, States
  <2> QED BY <2>1, <2>2, RetryAssumption
<1>3. to \in SandboxPhases
  BY PhaseNames DEF AllPhases, Ran
<1>4. Good(Moved(sandboxes[k], to))
  BY <1>0, <1>1, <1>2, <1>3, MovedGood DEF Ran
<1>5. AllGood'
  BY <1>0, <1>4, PutKeeps DEF ExternalTransition
<1> QED BY <1>5, QuietStep DEF ExternalTransition

LEMMA LoopStep ==
    ASSUME LInv,
           checkTimeouts \/ checkExpirations \/ processRetries \/ cleanupCompletedSandboxes
    PROVE  LInv'
<1> USE PhaseNames DEF AllPhases
<1>0. AllGood
  BY DEF LInv
<1>1. \A k \in Keys : sandboxes[k] = Absent \/ Good(sandboxes[k])
  BY <1>0 DEF AllGood, Managed
<1>2. \A k \in Keys : \A phases : In(k, phases) => Good(sandboxes[k]) /\ sandboxes[k].phase \in phases
  BY <1>0, ManagedGood DEF In
<1>3. CASE checkTimeouts
  <2>1. ASSUME NEW k \in Keys
        PROVE  sandboxes'[k] = Absent \/ Good(sandboxes'[k])
    <3>1. CASE In(k, {"Creating", "Scheduling"}) /\ sandboxes[k].overdue
      <4>1. sandboxes'[k] = Moved(sandboxes[k], "Failed")
        BY <1>3, <3>1 DEF checkTimeouts
      <4> QED BY <1>2, <3>1, <4>1, MovedGood
    <3>2. CASE ~ (In(k, {"Creating", "Scheduling"}) /\ sandboxes[k].overdue)
               /\ In(k, {"Stopping"}) /\ sandboxes[k].overdue
      <4>1. sandboxes'[k] = Moved(sandboxes[k], "Stopped")
        BY <1>3, <3>2 DEF checkTimeouts
      <4>2. Good(sandboxes[k]) /\ sandboxes[k].phase = "Stopping"
        BY <1>2, <3>2
      <4> QED BY <4>1, <4>2, MovedGood DEF Ran
    <3>3. CASE ~ (In(k, {"Creating", "Scheduling"}) /\ sandboxes[k].overdue)
               /\ ~ (In(k, {"Stopping"}) /\ sandboxes[k].overdue)
      BY <1>1, <1>3, <3>3 DEF checkTimeouts
    <3> QED BY <3>1, <3>2, <3>3
  <2>2. sandboxes' = [k \in Keys |-> sandboxes'[k]]
    BY <1>3 DEF checkTimeouts
  <2>3. AllGood'
    BY <1>0, <2>1, <2>2, LoopKeeps
  <2> QED BY <1>3, <2>3, QuietStep DEF checkTimeouts
<1>4. CASE checkExpirations
  <2>1. ASSUME NEW k \in Keys
        PROVE  sandboxes'[k] = Absent \/ Good(sandboxes'[k])
    <3>1. CASE In(k, {"Running", "Paused"}) /\ sandboxes[k].expiry = "past"
      <4>1. sandboxes'[k] = [Moved(sandboxes[k], "Stopping") EXCEPT !.target = "Terminating"]
        BY <1>4, <3>1 DEF checkExpirations
      <4>2. Good(sandboxes[k]) /\ sandboxes[k].phase \in {"Running", "Paused"}
        BY <1>2, <3>1
      <4>3. Good(Moved(sandboxes[k], "Stopping"))
        BY <4>2, MovedGood DEF Ran
      <4> QED BY <4>1, <4>3, TargetSet
    <3>2. CASE ~ (In(k, {"Running", "Paused"}) /\ sandboxes[k].expiry = "past")
      BY <1>1, <1>4, <3>2 DEF checkExpirations
    <3> QED BY <3>1, <3>2
  <2>2. sandboxes' = [k \in Keys |-> sandboxes'[k]]
    BY <1>4 DEF checkExpirations
  <2>3. AllGood'
    BY <1>0, <2>1, <2>2, LoopKeeps
  <2> QED BY <1>4, <2>3, QuietStep DEF checkExpirations
<1>5. CASE processRetries
  <2>1. ASSUME NEW k \in Keys
        PROVE  sandboxes'[k] = Absent \/ Good(sandboxes'[k])
    <3>1. CASE RetryDue(k)
      <4>1. sandboxes'[k] = [Moved(sandboxes[k], "Pending") EXCEPT !.target = "Running"]
        BY <1>5, <3>1 DEF processRetries
      <4>2. Good(sandboxes[k]) /\ sandboxes[k].retryCount < maxRetryCount
        BY <1>2, <3>1 DEF RetryDue
      <4>3. Good(Moved(sandboxes[k], "Pending"))
        BY <4>2, MovedGood
      <4>4. "Running" \in SandboxPhases
        BY DEF Ran
      <4>5. Good([Moved(sandboxes[k], "Pending") EXCEPT !.target = "Running"])
        BY <4>3, <4>4, TargetSet
      <4> QED BY <4>1, <4>5
    <3>2. CASE ~ RetryDue(k)
      BY <1>1, <1>5, <3>2 DEF processRetries
    <3> QED BY <3>1, <3>2
  <2>2. sandboxes' = [k \in Keys |-> sandboxes'[k]]
    BY <1>5 DEF processRetries
  <2>3. AllGood'
    BY <1>0, <2>1, <2>2, LoopKeeps
  <2>4. AInv'
    BY <1>5, Unchanged DEF LInv, processRetries
  <2> QED BY <2>3, <2>4 DEF LInv
<1>6. CASE cleanupCompletedSandboxes
  <2>1. ASSUME NEW k \in Keys
        PROVE  sandboxes'[k] = Absent \/ Good(sandboxes'[k])
    <3> DEFINE done == /\ In(k, {"Stopped", "Failed"})
                       /\ sandboxes[k].spec.autoDelete
                       /\ ~ sandboxes[k].deleting
    <3>1. CASE done
      <4>1. sandboxes'[k] = [Moved(sandboxes[k], "Terminating") EXCEPT !.deleting = TRUE]
        BY <1>6, <3>1 DEF cleanupCompletedSandboxes
      <4>2. Good(sandboxes[k])
        BY <1>2, <3>1
      <4>3. Good(Moved(sandboxes[k], "Terminating"))
        BY <4>2, MovedGood
      <4> QED BY <4>1, <4>3, FlagSet
    <3>2. CASE ~ done
      BY <1>1, <1>6, <3>2 DEF cleanupCompletedSandboxes
    <3> QED BY <3>1, <3>2
  <2>2. sandboxes' = [k \in Keys |-> sandboxes'[k]]
    BY <1>6 DEF cleanupCompletedSandboxes
  <2>3. AllGood'
    BY <1>0, <2>1, <2>2, LoopKeeps
  <2> QED BY <1>6, <2>3, QuietStep DEF cleanupCompletedSandboxes
<1> QED BY <1>3, <1>4, <1>5, <1>6

\* A step of the tenant manager that leaves the sandboxes alone.
LEMMA TenantStep ==
    ASSUME LInv, AInv', UNCHANGED sandboxes
    PROVE  LInv'
BY DEF LInv, AllGood, Managed

LEMMA LifecycleStep ==
    ASSUME LInv, [LifecycleNext]_vars
    PROVE  LInv'
<1>1. ASSUME NEW k \in Keys, Call(k) \/ DeadlinePasses(k) \/ LifetimeEnds(k)
      PROVE  LInv'
  BY <1>1, CreateStep, MoveStep, ReleasingStep, ScheduleStep, UpdateStep DEF Call
<1>2. ASSUME NEW k \in Keys, NEW to \in {"Scheduling", "Paused"}, ExternalTransition(k, to)
      PROVE  LInv'
  BY <1>2, ExternalStep
<1>3. CASE checkTimeouts \/ checkExpirations \/ processRetries \/ cleanupCompletedSandboxes
  BY <1>3, LoopStep
<1>4. ASSUME NEW t \in Tenants, NEW spec \in Specs, Register(t, spec)
      PROVE  LInv'
  <2>1. "Active" \in Phases
    BY DEF Phases
  <2> QED BY <1>4, <2>1, RegisterKeeps, TenantStep DEF LInv, Register
<1>5. ASSUME NEW t \in Tenants, Unregister(t)
      PROVE  LInv'
  BY <1>5, UnregisterKeeps, TenantStep DEF LInv, Unregister
<1>6. CASE UNCHANGED vars
  BY <1>6, Unchanged, TenantStep DEF LInv, vars
<1> QED BY <1>1, <1>2, <1>3, <1>4, <1>5, <1>6 DEF LifecycleNext

LEMMA LifecycleStart ==
    ASSUME LifecycleInit
    PROVE  LInv
<1>1. AInv
  BY InitAccounts DEF LifecycleInit
<1> QED BY <1>1 DEF LifecycleInit, LInv, AllGood, Managed

-----------------------------------------------------------------------------
(* The theorems *)

LEMMA LifecycleInv == LifecycleSpec => []LInv
<1>1. LifecycleInit => LInv
  BY LifecycleStart
<1>2. LInv /\ [LifecycleNext]_vars => LInv'
  BY LifecycleStep
<1> QED BY <1>1, <1>2, PTL DEF LifecycleSpec

LEMMA LInvMeans == LInv => LifecycleTypeOK /\ QuotaNeverOvercounts /\ Placed /\ RetriesBounded
<1> SUFFICES ASSUME LInv
             PROVE  LifecycleTypeOK /\ QuotaNeverOvercounts /\ Placed /\ RetriesBounded
  OBVIOUS
<1>1. LifecycleTypeOK /\ QuotaNeverOvercounts
  BY DEF LInv, AInv, AllGood, LifecycleTypeOK
<1>2. \A k \in Keys : Managed(k) => Good(sandboxes[k])
  BY DEF LInv, AllGood
<1>3. Placed
  BY <1>2 DEF Placed, In, Good, Ran
<1>4. RetriesBounded
  BY <1>2 DEF RetriesBounded, In, Good
<1> QED BY <1>1, <1>3, <1>4

\* Every SandboxState and every tenant account keeps its type.
THEOREM LifecycleTypes == LifecycleSpec => []LifecycleTypeOK
BY LifecycleInv, LInvMeans, PTL

\* A sandbox that runs or has run has its handle and is on the node it was
\* scheduled to last; an evicted one is nowhere.
THEOREM LifecyclePlaced == LifecycleSpec => []Placed
BY LifecycleInv, LInvMeans, PTL

\* A sandbox that has used up its retries is failed for good.
THEOREM LifecycleRetries == LifecycleSpec => []RetriesBounded
BY LifecycleInv, LInvMeans, PTL

\* However the lifecycle manager allocates, rolls back and releases, twice or
\* after an update of the resources, the quota never counts more than the usage.
THEOREM LifecycleQuota == LifecycleSpec => []QuotaNeverOvercounts
BY LifecycleInv, LInvMeans, PTL

\* Placement, retries and accounts survive every order of calls, timeouts, retries
\* and late answers.
THEOREM LifecycleAlwaysSafe == LifecycleSpec => []LifecycleSafe
BY LifecycleTypes, LifecyclePlaced, LifecycleRetries, LifecycleQuota, PTL DEF LifecycleSafe

-----------------------------------------------------------------------------
(* Snapshots *)

\* The states of a snapshot that go with sm.mu.
Held == {"creating", "deleting"}

\* A tree of files, each an inode or missing.
Data == [TreeFiles -> SnapInodes \cup {NoFile}]

\* The shape of a snapshot.
IsSnap(x) ==
    /\ x \in [state : {"new", "creating", "listed", "damaged", "deleting", "gone"}, from : {x.from}, data : Data,
              copied : {x.copied}, shadow : {x.shadow}, vss : {x.vss}, linked : {x.linked}]
    /\ x.copied = [f \in TreeFiles |-> x.copied[f]] /\ x.shadow = [f \in TreeFiles |-> x.shadow[f]]

\* The shape of a restore.
IsRestore(z) ==
    z \in [snap : {z.snap}, tree : {z.tree}, left : {z.left}, put : {z.put}, at : {"idle", "found", "walk", "ok"}]

\* The trees, the snapshots and the restores.
SnapTypes ==
    /\ tree = [t \in Trees |-> tree[t]] /\ \A t \in Trees : tree[t] = [f \in TreeFiles |-> tree[t][f]]
    /\ content = [i \in SnapInodes |-> content[i]]
    /\ snap = [s \in Snaps |-> snap[s]] /\ \A s \in Snaps : IsSnap(snap[s])
    /\ restore = [r \in Restorers |-> restore[r]] /\ \A r \in Restorers : IsRestore(restore[r])

\* A file of a snapshot that no restore has linked is in no tree and in no other place.
SnapApart ==
    \A s \in Snaps, f \in TreeFiles : snap[s].data[f] # NoFile /\ f \notin snap[s].linked =>
        /\ \A t \in Trees, g \in TreeFiles : tree[t][g] # snap[s].data[f]
        /\ \A u \in Snaps, g \in TreeFiles : snap[u].data[g] = snap[s].data[f] => u = s /\ g = f

\* sm.mu has one holder.
OneHolder == \A s, u \in Snaps : snap[s].state \in Held /\ snap[u].state \in Held => s = u

\* With a shadow copy, what is copied is what the shadow has.
ShadowFor(x, left) ==
    x.vss => /\ x.state = "creating" => \A f \in TreeFiles \ left : x.copied[f] = x.shadow[f]
             /\ x.state = "listed" => \A f \in TreeFiles : x.copied[f] = x.shadow[f]

\* What is copied so far is what the shadow copy has.
ShadowCopied == \A s \in Snaps : ShadowFor(snap[s], todo)

\* A restore has looked up a snapshot that was listed, and put what it has done with.
RestoreFor(z, sn) ==
    z.at # "idle" =>
        /\ z.snap \in Snaps /\ z.tree \in Trees /\ sn[z.snap].state \notin {"new", "creating"}
        /\ z.at \in {"walk", "ok"} /\ sn[z.snap].state = "listed" =>
              \A f \in TreeFiles : sn[z.snap].data[f] # NoFile =>
                  \/ z.at = "walk" /\ f \in z.left
                  \/ \E p \in z.put : p[1] = f /\ (f \notin sn[z.snap].linked => p[2] = sn[z.snap].copied[f])

\* Every restore has done what it is past.
RestoresHold == \A r \in Restorers : RestoreFor(restore[r], snap)

\* The inductive invariant: until a restore links it, a file of a snapshot is
\* in no other place, and the snapshot that is being written has sm.mu.
SnapInv == SnapTypes /\ SnapApart /\ SnapshotKept /\ OneHolder /\ ShadowCopied /\ RestoresHold

\* A snapshot that was not taken holds nothing.
LEMMA NoSnapFacts ==
    /\ IsSnap(NoSnap) /\ NoSnap.state = "new" /\ NoSnap.linked = {} /\ NoSnap.data = NoData
    /\ \A f \in TreeFiles : NoSnap.data[f] = NoFile /\ NoSnap.copied[f] = 0 /\ NoSnap.shadow[f] = 0
  BY DEF NoSnap, IsSnap, NoData, Data

\* Nor does a restore that was not asked for.
LEMMA NoRestoreFacts == IsRestore(NoRestore) /\ NoRestore.at = "idle"
  BY DEF NoRestore, IsRestore

\* The inode of a new file is in no tree and in no snapshot.
LEMMA NewInodeFresh ==
    ASSUME HaveInode
    PROVE  /\ NewInode \in SnapInodes /\ NewInode # NoFile
           /\ \A t \in Trees, g \in TreeFiles : tree[t][g] # NewInode
           /\ \A u \in Snaps, g \in TreeFiles : snap[u].data[g] # NewInode
<1>1. \E i \in SnapInodes : i \notin UsedInodes
  BY DEF HaveInode
<1>2. NewInode \in SnapInodes /\ NewInode \notin UsedInodes
  BY <1>1 DEF NewInode
<1> QED
  BY <1>2, SnapshotAssumption DEF UsedInodes

\* The snapshot of a restore is listed no more, or is listed with the same files and
\* more of them linked.
SnapshotFor(z, sn, sp) ==
    z.at # "idle" =>
        /\ sp[z.snap].state \notin {"new", "creating"}
        /\ sp[z.snap].state = "listed" =>
              /\ sn[z.snap].state = "listed" /\ sn[z.snap].linked \subseteq sp[z.snap].linked
              /\ sp[z.snap].data = sn[z.snap].data /\ sp[z.snap].copied = sn[z.snap].copied

\* Then what it has put still holds.
LEMMA RestoreForKept ==
    ASSUME NEW z, NEW sn, NEW sp, RestoreFor(z, sn), SnapshotFor(z, sn, sp)
    PROVE  RestoreFor(z, sp)
<1> USE DEF SnapshotFor
<1>1. PICK x, y : x = sn[z.snap] /\ y = sp[z.snap]
  OBVIOUS
<1>2. SUFFICES ASSUME z.at # "idle" PROVE RestoreFor(z, sp)
  BY DEF RestoreFor
<1>3. z.snap \in Snaps /\ z.tree \in Trees /\ y.state \notin {"new", "creating"}
  BY <1>1, <1>2 DEF RestoreFor
<1>4. ASSUME z.at \in {"walk", "ok"}, y.state = "listed", NEW f \in TreeFiles, y.data[f] # NoFile
      PROVE  \/ z.at = "walk" /\ f \in z.left
             \/ \E p \in z.put : p[1] = f /\ (f \notin y.linked => p[2] = y.copied[f])
  <2>1. x.state = "listed" /\ x.linked \subseteq y.linked /\ y.data = x.data /\ y.copied = x.copied
    BY <1>1, <1>2, <1>4
  <2>2. \/ z.at = "walk" /\ f \in z.left
        \/ \E p \in z.put : p[1] = f /\ (f \notin x.linked => p[2] = x.copied[f])
    BY <1>1, <1>2, <1>4, <2>1 DEF RestoreFor
  <2> QED
    BY <2>1, <2>2
<1> QED
  BY <1>1, <1>3, <1>4 DEF RestoreFor

\* The tree, the contents and the snapshots are of their types.
ShapeOf(tr, c, sn) ==
    /\ tr = [t \in Trees |-> tr[t]] /\ \A t \in Trees : tr[t] = [f \in TreeFiles |-> tr[t][f]]
    /\ c = [i \in SnapInodes |-> c[i]]
    /\ sn = [s \in Snaps |-> sn[s]] /\ \A s \in Snaps : IsSnap(sn[s])

\* The restores are of theirs.
RestoresShape(rs) == rs = [r \in Restorers |-> rs[r]] /\ \A r \in Restorers : IsRestore(rs[r])

\* Together they are the types.
LEMMA SnapTypesAre ==
    /\ SnapTypes <=> ShapeOf(tree, content, snap) /\ RestoresShape(restore)
    /\ SnapTypes' <=> ShapeOf(tree', content', snap') /\ RestoresShape(restore')
  BY DEF SnapTypes, ShapeOf, RestoresShape

\* A restore becomes z, and is of its type.
LEMMA RestoreTyped ==
    ASSUME SnapInv, NEW r \in Restorers, NEW z, IsRestore(z), restore' = [restore EXCEPT ![r] = z]
    PROVE  /\ RestoresShape(restore') /\ restore'[r] = z
           /\ \A q \in Restorers : q # r => restore'[q] = restore[q]
<1>1. RestoresShape(restore)
  BY SnapTypesAre DEF SnapInv
<1>2. /\ restore' = [q \in Restorers |-> restore'[q]] /\ restore'[r] = z
      /\ \A q \in Restorers : q # r => restore'[q] = restore[q]
  BY <1>1 DEF RestoresShape
<1> QED
  BY <1>1, <1>2 DEF RestoresShape

\* One inode has another content.
LEMMA ContentTyped ==
    ASSUME SnapInv, NEW i, NEW v, content' = [content EXCEPT ![i] = v]
    PROVE  content' = [j \in SnapInodes |-> content'[j]] /\ \A j : j # i => content'[j] = content[j]
<1>1. content = [j \in SnapInodes |-> content[j]]
  BY DEF SnapInv, SnapTypes
<1>2. content' = [j \in SnapInodes |-> content'[j]] /\ \A j \in SnapInodes : j # i => content'[j] = content[j]
  BY <1>1
<1>3. \A j : j \notin SnapInodes => content'[j] = content[j]
  BY <1>1
<1> QED
  BY <1>2, <1>3

\* One place of a tree has another inode.
LEMMA TreeTyped ==
    ASSUME SnapInv, NEW t \in Trees, NEW f, NEW i, tree' = [tree EXCEPT ![t][f] = i]
    PROVE  /\ tree' = [q \in Trees |-> tree'[q]] /\ \A q \in Trees : tree'[q] = [h \in TreeFiles |-> tree'[q][h]]
           /\ \A q \in Trees, h \in TreeFiles : tree'[q][h] \in {tree[q][h], i}
<1>1. tree = [q \in Trees |-> tree[q]] /\ \A q \in Trees : tree[q] = [h \in TreeFiles |-> tree[q][h]]
  BY DEF SnapInv, SnapTypes
<1> QED
  BY <1>1

\* A snapshot becomes y, which has no more files than it had, and is not listed again.
LEMMA SnapChanges ==
    ASSUME SnapInv, NEW s \in Snaps, NEW y, IsSnap(y), snap' = [snap EXCEPT ![s] = y],
           tree' = tree, content' = content, restore' = restore,
           \A f \in TreeFiles : y.data[f] # NoFile => /\ y.data[f] = snap[s].data[f]
                                                      /\ f \notin y.linked => f \notin snap[s].linked
                                                      /\ y.copied[f] = snap[s].copied[f],
           y.state \in Held => snap[s].state \in Held \/ ~ SnapLocked,
           snap[s].state \notin {"new", "creating"} => y.state \notin {"new", "creating", "listed"},
           ShadowFor(y, todo'),
           todo' = todo \/ snap[s].state \in Held \/ ~ SnapLocked
    PROVE  SnapInv'
<1>1. snap' = [u \in Snaps |-> snap'[u]] /\ snap'[s] = y /\ \A u \in Snaps : u # s => snap'[u] = snap[u]
  BY DEF SnapInv, SnapTypes
<1>2. SnapTypes'
  BY <1>1 DEF SnapInv, SnapTypes
<1>3. \A u \in Snaps, f \in TreeFiles : snap'[u].data[f] # NoFile =>
         /\ snap'[u].data[f] = snap[u].data[f] /\ snap'[u].copied[f] = snap[u].copied[f]
         /\ f \notin snap'[u].linked => f \notin snap[u].linked
  BY <1>1
<1>4. SnapApart'
  BY <1>3 DEF SnapInv, SnapApart
<1>5. SnapshotKept'
  BY <1>3 DEF SnapInv, SnapshotKept
<1>6. OneHolder'
  BY <1>1 DEF SnapInv, OneHolder, SnapLocked, Held
<1>7. ShadowCopied'
  <2>1. ASSUME NEW u \in Snaps, u # s PROVE ShadowFor(snap[u], todo')
    <3>1. ShadowFor(snap[u], todo)
      BY DEF SnapInv, ShadowCopied
    <3>2. CASE todo' = todo
      BY <3>1, <3>2
    <3>3. CASE snap[u].state # "creating"
      BY <3>1, <3>3 DEF ShadowFor
    <3> QED
      BY <2>1, <3>2, <3>3 DEF SnapInv, OneHolder, SnapLocked, Held
  <2> QED
    BY <1>1, <2>1 DEF ShadowCopied
<1>8. RestoresHold'
  <2>1. ASSUME NEW r \in Restorers PROVE RestoreFor(restore[r], snap')
    <3>1. PICK z : z = restore[r]
      OBVIOUS
    <3>2. RestoreFor(z, snap)
      BY <3>1 DEF SnapInv, RestoresHold
    <3>3. z.at # "idle" => /\ z.snap \in Snaps /\ snap[z.snap].state \notin {"new", "creating"}
                           /\ z.snap # s => snap'[z.snap] = snap[z.snap]
      BY <1>1, <3>2 DEF RestoreFor
    <3>4. CASE z.snap = s
      <4>1. z.at # "idle" => snap'[z.snap].state \notin {"new", "creating", "listed"}
        BY <1>1, <3>3, <3>4
      <4> QED
        <5>1. SnapshotFor(z, snap, snap')
          BY <4>1 DEF SnapshotFor
        <5> QED
          BY <3>1, <3>2, <5>1, RestoreForKept
    <3>5. CASE z.snap # s
      <4>1. SnapshotFor(z, snap, snap')
        BY <3>3, <3>5 DEF SnapshotFor
      <4> QED
        BY <3>1, <3>2, <4>1, RestoreForKept
    <3> QED
      BY <3>4, <3>5
  <2> QED
    BY <2>1 DEF RestoresHold
<1> QED
  BY <1>2, <1>4, <1>5, <1>6, <1>7, <1>8 DEF SnapInv

\* A restore becomes z.
LEMMA RestoreChanges ==
    ASSUME SnapInv, NEW r \in Restorers, NEW z, IsRestore(z), restore' = [restore EXCEPT ![r] = z],
           tree' = tree, content' = content, snap' = snap, todo' = todo, RestoreFor(z, snap)
    PROVE  SnapInv'
<1>1. restore' = [q \in Restorers |-> restore'[q]] /\ restore'[r] = z /\ \A q \in Restorers : q # r => restore'[q] = restore[q]
  BY DEF SnapInv, SnapTypes
<1>2. SnapTypes'
  BY <1>1 DEF SnapInv, SnapTypes
<1>3. RestoresHold'
  BY <1>1 DEF SnapInv, RestoresHold
<1> QED
  BY <1>2, <1>3 DEF SnapInv, SnapApart, SnapshotKept, OneHolder, ShadowCopied

\* What one step of a creation or deletion does.
LEMMA SnapStepInv ==
    ASSUME SnapInv, NEW s \in Snaps, SnapStep(s)
    PROVE  SnapInv'
<1>a. IsSnap(snap[s]) /\ ShadowFor(snap[s], todo)
  BY DEF SnapInv, SnapTypes, ShadowCopied
<1>1. ASSUME NEW t \in Trees, NEW vss \in BOOLEAN, CreateSnapshot(s, t, vss) PROVE SnapInv'
  <2> DEFINE sh == [f \in TreeFiles |-> IF tree[t][f] = NoFile THEN 0 ELSE content[tree[t][f]]]
             y == [NoSnap EXCEPT !.state = "creating", !.from = t, !.vss = vss, !.shadow = sh]
  <2>1. /\ snap' = [snap EXCEPT ![s] = y] /\ tree' = tree /\ content' = content /\ restore' = restore
        /\ ~ SnapLocked /\ snap[s].state = "new" /\ todo' = {f \in TreeFiles : tree[t][f] # NoFile}
    BY <1>1 DEF CreateSnapshot
  <2>2. sh = [f \in TreeFiles |-> sh[f]] /\ \A f \in TreeFiles : tree[t][f] = NoFile => sh[f] = 0
    OBVIOUS
  <2> HIDE DEF sh
  <2>3. /\ IsSnap(y) /\ y.state = "creating" /\ y.shadow = sh
        /\ \A f \in TreeFiles : y.data[f] = NoFile /\ y.copied[f] = 0
    BY <2>2, NoSnapFacts DEF IsSnap
  <2> HIDE DEF y
  <2>4. ShadowFor(y, todo')
    BY <2>1, <2>2, <2>3 DEF ShadowFor
  <2> QED
    BY <2>1, <2>3, <2>4, SnapChanges
<1>2. CASE CreateEnds(s)
  <2> DEFINE y == [snap[s] EXCEPT !.state = "listed"]
  <2>1. /\ snap' = [snap EXCEPT ![s] = y] /\ tree' = tree /\ content' = content /\ restore' = restore
        /\ snap[s].state = "creating" /\ todo = {} /\ todo' = todo
    BY <1>2 DEF CreateEnds
  <2>2. /\ IsSnap(y) /\ y.state = "listed" /\ y.data = snap[s].data /\ y.copied = snap[s].copied
        /\ y.shadow = snap[s].shadow /\ y.linked = snap[s].linked /\ y.vss = snap[s].vss
    BY <1>a DEF IsSnap
  <2> HIDE DEF y
  <2>3. ShadowFor(y, todo')
    BY <1>a, <2>1, <2>2 DEF ShadowFor
  <2> QED
    BY <2>1, <2>2, <2>3, SnapChanges DEF Held
<1>3. CASE CreateFails(s) \/ DeleteEnds(s)
  <2> DEFINE y == [NoSnap EXCEPT !.state = "gone"]
  <2>1. /\ snap' = [snap EXCEPT ![s] = y] /\ tree' = tree /\ content' = content /\ restore' = restore
        /\ snap[s].state \in Held
    BY <1>3 DEF CreateFails, DeleteEnds, Held
  <2>2. /\ IsSnap(y) /\ y.state = "gone" /\ \A f \in TreeFiles : y.data[f] = NoFile
    BY NoSnapFacts DEF IsSnap
  <2> HIDE DEF y
  <2>3. ShadowFor(y, todo')
    BY <2>2 DEF ShadowFor
  <2> QED
    BY <2>1, <2>2, <2>3, SnapChanges DEF Held
<1>4. ASSUME NEW p \in {"deleting", "damaged", "gone"}, snap' = [snap EXCEPT ![s].state = p],
             tree' = tree, content' = content, restore' = restore,
             snap[s].state = "deleting" \/ ~ SnapLocked
      PROVE  SnapInv'
  <2> DEFINE y == [snap[s] EXCEPT !.state = p]
  <2>1. snap' = [snap EXCEPT ![s] = y]
    BY <1>4
  <2>2. /\ IsSnap(y) /\ y.state = p /\ y.data = snap[s].data /\ y.copied = snap[s].copied /\ y.linked = snap[s].linked
    BY <1>a DEF IsSnap
  <2> HIDE DEF y
  <2>3. ShadowFor(y, todo')
    BY <1>4, <2>2 DEF ShadowFor
  <2> QED
    BY <1>4, <2>1, <2>2, <2>3, SnapChanges DEF Held
<1>5. CASE DeleteSnapshot(s)
  BY <1>4, <1>5 DEF DeleteSnapshot
<1>6. CASE DeleteFails(s)
  BY <1>4, <1>6 DEF DeleteFails
<1>7. ASSUME NEW f \in TreeFiles, DeleteFile(s, f) PROVE SnapInv'
  <2> DEFINE y == [snap[s] EXCEPT !.data[f] = NoFile]
  <2>1. /\ snap' = [snap EXCEPT ![s] = y] /\ tree' = tree /\ content' = content /\ restore' = restore
        /\ snap[s].state = "deleting"
    BY <1>7 DEF DeleteFile
  <2>2. /\ IsSnap(y) /\ y.state = "deleting" /\ y.copied = snap[s].copied /\ y.linked = snap[s].linked
        /\ \A g \in TreeFiles : y.data[g] # NoFile => y.data[g] = snap[s].data[g]
    BY <1>a, <2>1 DEF IsSnap, Data
  <2> HIDE DEF y
  <2>3. ShadowFor(y, todo')
    BY <2>2 DEF ShadowFor
  <2> QED
    BY <2>1, <2>2, <2>3, SnapChanges DEF Held
<1>8. ASSUME NEW f \in TreeFiles, CreateFile(s, f) PROVE SnapInv'
  <2> DEFINE i == NewInode
             v == IF snap[s].vss THEN snap[s].shadow[f] ELSE content[tree[snap[s].from][f]]
             y == [snap[s] EXCEPT !.data[f] = i, !.copied[f] = v]
  <2>1. /\ snap' = [snap EXCEPT ![s] = y] /\ tree' = tree /\ content' = [content EXCEPT ![i] = v] /\ restore' = restore
        /\ snap[s].state = "creating" /\ HaveInode /\ todo' = todo \ {f}
    BY <1>8 DEF CreateFile
  <2>2. /\ i \in SnapInodes /\ i # NoFile
        /\ \A t \in Trees, g \in TreeFiles : tree[t][g] # i
        /\ \A u \in Snaps, g \in TreeFiles : snap[u].data[g] # i
    BY <2>1, NewInodeFresh
  <2>3. snap[s].vss => v = snap[s].shadow[f]
    OBVIOUS
  <2> HIDE DEF i, v
  <2>4. /\ IsSnap(y) /\ y.state = "creating" /\ y.linked = snap[s].linked /\ y.shadow = snap[s].shadow /\ y.vss = snap[s].vss
        /\ y.data[f] = i /\ y.copied[f] = v
        /\ \A g \in TreeFiles : g # f => y.data[g] = snap[s].data[g] /\ y.copied[g] = snap[s].copied[g]
    BY <1>a, <2>1, <2>2 DEF IsSnap, Data
  <2> HIDE DEF y
  <2>5. snap' = [u \in Snaps |-> snap'[u]] /\ snap'[s] = y /\ \A u \in Snaps : u # s => snap'[u] = snap[u]
    BY <2>1 DEF SnapInv, SnapTypes
  <2>6. content' = [j \in SnapInodes |-> content'[j]] /\ content'[i] = v /\ \A j : j # i => content'[j] = content[j]
    <3>1. content' = [j \in SnapInodes |-> content'[j]] /\ content'[i] = v /\ \A j \in SnapInodes : j # i => content'[j] = content[j]
      BY <2>1, <2>2 DEF SnapInv, SnapTypes
    <3>2. \A j : j \notin SnapInodes => content'[j] = content[j]
      BY <2>1, <2>2 DEF SnapInv, SnapTypes
    <3> QED
      BY <3>1, <3>2
  <2>7. SnapTypes'
    BY <2>1, <2>4, <2>5, <2>6 DEF SnapInv, SnapTypes
  <2>8. \A u \in Snaps, g \in TreeFiles :
           IF u = s /\ g = f THEN snap'[u].data[g] = i /\ snap'[u].copied[g] = v
           ELSE snap'[u].data[g] = snap[u].data[g] /\ snap'[u].copied[g] = snap[u].copied[g] /\ snap[u].data[g] # i
    BY <2>2, <2>4, <2>5
  <2>9. \A u \in Snaps : snap'[u].linked = snap[u].linked
    BY <2>4, <2>5
  <2>10. SnapApart'
    BY <2>1, <2>2, <2>8, <2>9 DEF SnapInv, SnapApart
  <2>11. SnapshotKept'
    BY <2>6, <2>8, <2>9 DEF SnapInv, SnapshotKept
  <2>12. OneHolder'
    BY <2>1, <2>4, <2>5 DEF SnapInv, OneHolder, Held
  <2>13. ShadowCopied'
    <3>1. ShadowFor(y, todo')
      BY <1>a, <2>1, <2>3, <2>4 DEF ShadowFor
    <3>2. ASSUME NEW u \in Snaps, u # s PROVE ShadowFor(snap[u], todo')
      BY <2>1, <3>2 DEF SnapInv, ShadowCopied, ShadowFor, OneHolder, Held
    <3> QED
      BY <2>5, <3>1, <3>2 DEF ShadowCopied
  <2>14. RestoresHold'
    <3>1. ASSUME NEW r \in Restorers PROVE RestoreFor(restore[r], snap')
      <4>1. PICK z : z = restore[r]
        OBVIOUS
      <4>2. RestoreFor(z, snap)
        BY <4>1 DEF SnapInv, RestoresHold
      <4>3. z.at # "idle" => z.snap \in Snaps /\ snap[z.snap].state \notin {"new", "creating"}
        BY <4>2 DEF RestoreFor
      <4>4. z.at # "idle" => snap'[z.snap] = snap[z.snap]
        BY <2>1, <2>5, <4>3
      <4>5. SnapshotFor(z, snap, snap')
        BY <4>3, <4>4 DEF SnapshotFor
      <4> QED
        BY <4>1, <4>2, <4>5, RestoreForKept
    <3> QED
      BY <2>1, <3>1 DEF RestoresHold
  <2> QED
    BY <2>7, <2>10, <2>11, <2>12, <2>13, <2>14 DEF SnapInv
<1> QED
  BY <1>1, <1>2, <1>3, <1>5, <1>6, <1>7, <1>8 DEF SnapStep

\* Snapshots stay as they are, and more of their files may be linked.
SnapsGrow ==
    \A u \in Snaps : /\ snap'[u].data = snap[u].data /\ snap'[u].copied = snap[u].copied
                     /\ snap'[u].state = snap[u].state /\ snap'[u].shadow = snap[u].shadow
                     /\ snap'[u].vss = snap[u].vss /\ snap[u].linked \subseteq snap'[u].linked

\* The files of snapshots that are not linked are in no tree, and are not written.
PlacesKept ==
    \A u \in Snaps, g \in TreeFiles : snap[u].data[g] # NoFile /\ g \notin snap'[u].linked =>
        /\ content'[snap[u].data[g]] = content[snap[u].data[g]]
        /\ \A t \in Trees, h \in TreeFiles : tree'[t][h] # snap[u].data[g]

\* Trees are written: no file of a snapshot that is not linked is touched.
LEMMA TreesWritten ==
    ASSUME SnapInv, SnapTypes', RestoresHold', todo' = todo, SnapsGrow, PlacesKept
    PROVE  SnapInv'
<1> USE DEF SnapsGrow
<1>1. SnapApart'
  BY DEF SnapInv, SnapApart, PlacesKept
<1>2. SnapshotKept'
  BY DEF SnapInv, SnapshotKept, PlacesKept
<1>3. OneHolder'
  BY DEF SnapInv, OneHolder
<1>4. ShadowCopied'
  <2>1. ASSUME NEW u \in Snaps PROVE ShadowFor(snap'[u], todo')
    BY DEF SnapInv, ShadowCopied, ShadowFor
  <2> QED
    BY <2>1 DEF ShadowCopied
<1> QED
  BY <1>1, <1>2, <1>3, <1>4 DEF SnapInv

\* What one step of a sandbox does.
LEMMA SandboxStepInv ==
    ASSUME SnapInv, NEW t \in Trees, NEW f \in TreeFiles, WriteInPlace(t, f) \/ RemoveFile(t, f)
    PROVE  SnapInv'
<1>1. CASE WriteInPlace(t, f)
  <2> DEFINE i == tree[t][f]
             v == version + 1
  <2>1. content' = [content EXCEPT ![i] = v] /\ tree' = tree /\ snap' = snap /\ todo' = todo /\ restore' = restore /\ i # NoFile
    BY <1>1 DEF WriteInPlace
  <2>2. content' = [j \in SnapInodes |-> content'[j]] /\ \A j : j # i => content'[j] = content[j]
    <3> HIDE DEF v, i
    <3> QED
      BY <2>1, ContentTyped
  <2>3. SnapTypes' /\ RestoresHold'
    BY <2>1, <2>2 DEF SnapInv, SnapTypes, RestoresHold
  <2>4. \A u \in Snaps, g \in TreeFiles : snap[u].data[g] # NoFile /\ g \notin snap[u].linked =>
           \A q \in Trees, h \in TreeFiles : tree[q][h] # snap[u].data[g]
    BY DEF SnapInv, SnapApart
  <2>5. SnapsGrow /\ PlacesKept
    BY <2>1, <2>2, <2>4 DEF SnapsGrow, PlacesKept
  <2> QED
    BY <2>1, <2>3, <2>5, TreesWritten
<1>2. CASE RemoveFile(t, f)
  <2>1. tree' = [tree EXCEPT ![t][f] = NoFile] /\ content' = content /\ snap' = snap /\ todo' = todo /\ restore' = restore
    BY <1>2 DEF RemoveFile
  <2>2. /\ tree' = [q \in Trees |-> tree'[q]] /\ \A q \in Trees : tree'[q] = [h \in TreeFiles |-> tree'[q][h]]
        /\ \A q \in Trees, h \in TreeFiles : tree'[q][h] \in {tree[q][h], NoFile}
    BY <2>1 DEF SnapInv, SnapTypes
  <2>3. SnapTypes' /\ RestoresHold'
    BY <2>1, <2>2 DEF SnapInv, SnapTypes, RestoresHold
  <2>4. \A u \in Snaps, g \in TreeFiles : snap[u].data[g] # NoFile /\ g \notin snap[u].linked =>
           \A q \in Trees, h \in TreeFiles : tree[q][h] # snap[u].data[g]
    BY DEF SnapInv, SnapApart
  <2>5. SnapsGrow /\ PlacesKept
    BY <2>1, <2>2, <2>4 DEF SnapsGrow, PlacesKept
  <2> QED
    BY <2>1, <2>3, <2>5, TreesWritten
<1> QED
  BY <1>1, <1>2

\* A restore puts a file, by a link, a new file or over the one that is there.
LEMMA RestoreFileInv ==
    ASSUME SnapInv, NEW r \in Restorers, NEW f \in TreeFiles, RestoreFile(r, f)
    PROVE  SnapInv'
<1> DEFINE s == restore[r].snap
           t == restore[r].tree
           src == snap[s].data[f]
           dst == tree[t][f]
           v == IF dst = src THEN 0 ELSE content[src]
           z == [restore[r] EXCEPT !.left = @ \ {f}, !.put = @ \cup {<<f, v>>}]
<1>1. /\ restore[r].at = "walk" /\ f \in restore[r].left /\ src # NoFile
      /\ restore' = [restore EXCEPT ![r] = z] /\ todo' = todo
      /\ \/ /\ dst = NoFile /\ tree' = [tree EXCEPT ![t][f] = src] /\ content' = content
            /\ snap' = [snap EXCEPT ![s].linked = @ \cup {f}]
         \/ /\ HaveInode /\ tree' = [tree EXCEPT ![t][f] = NewInode]
            /\ content' = [content EXCEPT ![NewInode] = content[src]] /\ snap' = snap
         \/ /\ dst # NoFile /\ content' = [content EXCEPT ![dst] = v] /\ tree' = tree /\ snap' = snap
  BY DEF RestoreFile
<1>2. IsRestore(restore[r]) /\ RestoreFor(restore[r], snap)
  BY DEF SnapInv, SnapTypes, RestoresHold
<1>3. s \in Snaps /\ t \in Trees
  BY <1>1, <1>2 DEF RestoreFor
<1>4. f \notin snap[s].linked => v = snap[s].copied[f]
  <2> SUFFICES ASSUME f \notin snap[s].linked PROVE v = snap[s].copied[f]
    OBVIOUS
  <2>1. src # NoFile
    BY <1>1
  <2>2. content[src] = snap[s].copied[f]
    BY <1>3, <2>1 DEF SnapInv, SnapshotKept
  <2>3. dst # src
    BY <1>3, <2>1 DEF SnapInv, SnapApart
  <2> QED
    BY <2>2, <2>3
<1>5. \A u \in Snaps, g \in TreeFiles : snap[u].data[g] # NoFile /\ g \notin snap[u].linked =>
         /\ \A q \in Trees, h \in TreeFiles : tree[q][h] # snap[u].data[g]
         /\ \A w \in Snaps, h \in TreeFiles : snap[w].data[h] = snap[u].data[g] => w = u /\ h = g
  BY DEF SnapInv, SnapApart
<1> HIDE DEF v
<1>6. /\ IsRestore(z) /\ z.snap = s /\ z.tree = t /\ z.at = "walk" /\ z.left = restore[r].left \ {f}
      /\ z.put = restore[r].put \cup {<<f, v>>}
  <2>1. PICK x : x = restore[r]
    OBVIOUS
  <2>2. IsRestore(x) /\ x.at = "walk" /\ x.snap = s /\ x.tree = t
    BY <1>1, <1>2, <2>1
  <2>3. z = [x EXCEPT !.left = @ \ {f}, !.put = @ \cup {<<f, v>>}]
    BY <2>1
  <2> HIDE DEF z, s, t
  <2>4. /\ IsRestore(z) /\ z.snap = s /\ z.tree = t /\ z.at = "walk" /\ z.left = x.left \ {f}
        /\ z.put = x.put \cup {<<f, v>>}
    BY <2>2, <2>3 DEF IsRestore
  <2> QED
    BY <2>1, <2>4
<1> HIDE DEF z
<1>7. /\ RestoresShape(restore') /\ restore'[r] = z
      /\ \A q \in Restorers : q # r => restore'[q] = restore[q]
  BY <1>1, <1>6, RestoreTyped
<1>b. ShapeOf(tree, content, snap)
  BY SnapTypesAre DEF SnapInv
<1>8. ASSUME SnapsGrow
      PROVE  RestoresHold'
  <2> USE DEF SnapsGrow
  <2>1. RestoreFor(z, snap')
    <3>1. z.snap \in Snaps /\ z.tree \in Trees /\ snap'[z.snap].state \notin {"new", "creating"}
      BY <1>1, <1>2, <1>3, <1>6, <1>8 DEF RestoreFor
    <3>2. ASSUME snap'[s].state = "listed", NEW g \in TreeFiles, snap'[s].data[g] # NoFile
          PROVE  \/ g \in z.left
                 \/ \E p \in z.put : p[1] = g /\ (g \notin snap'[s].linked => p[2] = snap'[s].copied[g])
      <4>1. CASE g = f
        <5>1. <<f, v>> \in z.put /\ <<f, v>>[1] = f /\ <<f, v>>[2] = v
          BY <1>6
        <5> QED
          BY <1>3, <1>4, <1>8, <4>1, <5>1
      <4>2. CASE g # f
        <5>1. PICK a, b : a = snap[s] /\ b = snap'[s]
          OBVIOUS
        <5>2. b.data = a.data /\ b.copied = a.copied /\ b.state = a.state /\ a.linked \subseteq b.linked
          BY <1>3, <1>8, <5>1
        <5>3. \/ g \in restore[r].left
              \/ \E p \in restore[r].put : p[1] = g /\ (g \notin a.linked => p[2] = a.copied[g])
          <6>1. a.state = "listed" /\ a.data[g] # NoFile
            BY <3>2, <5>1, <5>2
          <6> QED
            BY <1>1, <1>2, <5>1, <6>1 DEF RestoreFor
        <5>4. CASE g \in restore[r].left
          BY <1>6, <4>2, <5>4
        <5>5. CASE \E p \in restore[r].put : p[1] = g /\ (g \notin a.linked => p[2] = a.copied[g])
          <6>1. PICK p \in restore[r].put : p[1] = g /\ (g \notin a.linked => p[2] = a.copied[g])
            BY <5>5
          <6>2. p \in z.put /\ (g \notin b.linked => p[2] = b.copied[g])
            BY <1>6, <5>2, <6>1
          <6> QED
            BY <5>1, <6>1, <6>2
        <5> QED
          BY <5>3, <5>4, <5>5
      <4> QED
        BY <4>1, <4>2
    <3>3. PICK sp : sp = snap'
      OBVIOUS
    <3>4. /\ z.snap \in Snaps /\ z.tree \in Trees /\ sp[z.snap].state \notin {"new", "creating"}
          /\ z.at = "walk" /\ z.snap = s
      BY <1>6, <3>1, <3>3
    <3>5. ASSUME sp[s].state = "listed", NEW g \in TreeFiles, sp[s].data[g] # NoFile
          PROVE  \/ g \in z.left
                 \/ \E p \in z.put : p[1] = g /\ (g \notin sp[s].linked => p[2] = sp[s].copied[g])
      BY <3>2, <3>3, <3>5
    <3> HIDE DEF s
    <3>6. RestoreFor(z, sp)
      BY <3>4, <3>5 DEF RestoreFor
    <3> QED
      BY <3>3, <3>6
  <2>2. ASSUME NEW q \in Restorers, q # r PROVE RestoreFor(restore[q], snap')
    <3>1. PICK x : x = restore[q]
      OBVIOUS
    <3>2. RestoreFor(x, snap)
      BY <3>1 DEF SnapInv, RestoresHold
    <3>3. x.at # "idle" => x.snap \in Snaps /\ snap[x.snap].state \notin {"new", "creating"}
      BY <3>2 DEF RestoreFor
    <3>4. x.at # "idle" =>
             /\ snap'[x.snap].data = snap[x.snap].data /\ snap'[x.snap].copied = snap[x.snap].copied
             /\ snap'[x.snap].state = snap[x.snap].state /\ snap[x.snap].linked \subseteq snap'[x.snap].linked
      BY <1>8, <3>3
    <3>5. SnapshotFor(x, snap, snap')
      BY <3>3, <3>4 DEF SnapshotFor
    <3> QED
      BY <3>1, <3>2, <3>5, RestoreForKept
  <2> QED
    BY <1>7, <2>1, <2>2 DEF RestoresHold
<1>9. CASE dst = NoFile /\ tree' = [tree EXCEPT ![t][f] = src] /\ content' = content /\ snap' = [snap EXCEPT ![s].linked = @ \cup {f}]
  <2> DEFINE y == [snap[s] EXCEPT !.linked = @ \cup {f}]
  <2>1. snap' = [snap EXCEPT ![s] = y] /\ IsSnap(snap[s])
    BY <1>3, <1>9 DEF SnapInv, SnapTypes
  <2>2. /\ IsSnap(y) /\ y.state = snap[s].state /\ y.data = snap[s].data /\ y.copied = snap[s].copied
        /\ y.shadow = snap[s].shadow /\ y.linked = snap[s].linked \cup {f} /\ y.vss = snap[s].vss
    BY <2>1 DEF IsSnap
  <2> HIDE DEF y
  <2>3. snap' = [u \in Snaps |-> snap'[u]] /\ snap'[s] = y /\ \A u \in Snaps : u # s => snap'[u] = snap[u]
    BY <1>3, <2>1 DEF SnapInv, SnapTypes
  <2>4. /\ tree' = [q \in Trees |-> tree'[q]] /\ \A q \in Trees : tree'[q] = [h \in TreeFiles |-> tree'[q][h]]
        /\ \A q \in Trees, h \in TreeFiles : tree'[q][h] \in {tree[q][h], src}
    <3> HIDE DEF t, src
    <3> QED
      BY <1>3, <1>9, TreeTyped
  <2>5. \A u \in Snaps : /\ snap'[u].data = snap[u].data /\ snap'[u].copied = snap[u].copied
                         /\ snap'[u].state = snap[u].state /\ snap'[u].shadow = snap[u].shadow
                         /\ snap'[u].vss = snap[u].vss /\ snap[u].linked \subseteq snap'[u].linked
    BY <2>2, <2>3
  <2>6. SnapTypes'
    <3>1. ShapeOf(tree', content', snap')
      BY <1>9, <1>b, <2>2, <2>3, <2>4 DEF ShapeOf
    <3> QED
      BY <1>7, <3>1, SnapTypesAre
  <2>7. \A u \in Snaps, g \in TreeFiles : snap[u].data[g] # NoFile /\ g \notin snap'[u].linked =>
           \A q \in Trees, h \in TreeFiles : tree'[q][h] # snap[u].data[g]
    <3> SUFFICES ASSUME NEW u \in Snaps, NEW g \in TreeFiles, snap[u].data[g] # NoFile, g \notin snap'[u].linked,
                        NEW q \in Trees, NEW h \in TreeFiles
                 PROVE  tree'[q][h] # snap[u].data[g]
      OBVIOUS
    <3>1. g \notin snap[u].linked /\ (u = s => g # f)
      BY <2>2, <2>3
    <3>2. tree[q][h] # snap[u].data[g] /\ (src = snap[u].data[g] => s = u /\ f = g)
      BY <1>3, <1>5, <3>1
    <3> HIDE DEF src, s
    <3>3. tree'[q][h] \in {tree[q][h], src}
      BY <2>4
    <3> QED
      BY <3>1, <3>2, <3>3
  <2> QED
    <3>1. SnapsGrow
      BY <2>5 DEF SnapsGrow
    <3>2. PlacesKept
      <4> HIDE DEF t, src
      <4> QED
        BY <1>9, <2>7 DEF PlacesKept
    <3>3. RestoresHold'
      BY <1>8, <3>1
    <3> QED
      BY <1>1, <2>6, <3>1, <3>2, <3>3, TreesWritten
<1>10. CASE HaveInode /\ tree' = [tree EXCEPT ![t][f] = NewInode] /\ content' = [content EXCEPT ![NewInode] = content[src]] /\ snap' = snap
  <2> DEFINE i == NewInode
             c == content[src]
  <2>1. i \in SnapInodes /\ \A u \in Snaps, g \in TreeFiles : snap[u].data[g] # i
    BY <1>10, NewInodeFresh
  <2> HIDE DEF i, c
  <2>2. tree' = [tree EXCEPT ![t][f] = i] /\ content' = [content EXCEPT ![i] = c] /\ snap' = snap
    BY <1>10 DEF i, c
  <2>3. content' = [j \in SnapInodes |-> content'[j]] /\ \A j : j # i => content'[j] = content[j]
    BY <2>2, ContentTyped
  <2>4. /\ tree' = [q \in Trees |-> tree'[q]] /\ \A q \in Trees : tree'[q] = [h \in TreeFiles |-> tree'[q][h]]
        /\ \A q \in Trees, h \in TreeFiles : tree'[q][h] \in {tree[q][h], i}
    <3> HIDE DEF t
    <3> QED
      BY <1>3, <2>2, TreeTyped
  <2>5. SnapTypes'
    <3>1. ShapeOf(tree', content', snap')
      BY <1>b, <2>2, <2>3, <2>4 DEF ShapeOf
    <3> QED
      BY <1>7, <3>1, SnapTypesAre
  <2>6. \A u \in Snaps, g \in TreeFiles : snap[u].data[g] # NoFile /\ g \notin snap[u].linked =>
           \A q \in Trees, h \in TreeFiles : tree'[q][h] # snap[u].data[g]
    BY <1>5, <2>1, <2>4
  <2> QED
    <3>1. SnapsGrow
      BY <2>2 DEF SnapsGrow
    <3>2. PlacesKept
      BY <2>1, <2>2, <2>3, <2>6 DEF PlacesKept
    <3>3. RestoresHold'
      BY <1>8, <3>1
    <3> QED
      BY <1>1, <2>5, <3>1, <3>2, <3>3, TreesWritten
<1>11. CASE dst # NoFile /\ content' = [content EXCEPT ![dst] = v] /\ tree' = tree /\ snap' = snap
  <2>1. content' = [j \in SnapInodes |-> content'[j]] /\ \A j : j # dst => content'[j] = content[j]
    <3> HIDE DEF dst
    <3> QED
      BY <1>11, ContentTyped
  <2>2. SnapTypes'
    <3> HIDE DEF dst
    <3>1. ShapeOf(tree', content', snap')
      BY <1>11, <1>b, <2>1 DEF ShapeOf
    <3> QED
      BY <1>7, <3>1, SnapTypesAre
  <2>3. ASSUME NEW u \in Snaps, NEW g \in TreeFiles, snap[u].data[g] # NoFile, g \notin snap[u].linked
        PROVE  content'[snap[u].data[g]] = content[snap[u].data[g]]
    <3>1. dst # snap[u].data[g]
      BY <1>3, <1>5, <2>3
    <3> QED
      BY <2>1, <3>1
  <2> QED
    <3>1. SnapsGrow
      BY <1>11 DEF SnapsGrow
    <3>2. PlacesKept
      BY <1>5, <1>11, <2>3 DEF PlacesKept
    <3>3. RestoresHold'
      BY <1>8, <3>1
    <3> QED
      BY <1>1, <2>2, <3>1, <3>2, <3>3, TreesWritten
<1> QED
  BY <1>1, <1>9, <1>10, <1>11

\* What one step of a restore does.
LEMMA RestoreStepInv ==
    ASSUME SnapInv, NEW r \in Restorers, RestoreStep(r)
    PROVE  SnapInv'
<1>a. IsRestore(restore[r]) /\ RestoreFor(restore[r], snap)
  BY DEF SnapInv, SnapTypes, RestoresHold
<1>1. ASSUME NEW s \in Snaps, NEW t \in Trees, RestoreSnapshot(r, s, t) PROVE SnapInv'
  <2> DEFINE z == [NoRestore EXCEPT !.snap = s, !.tree = t, !.at = "found"]
  <2>1. /\ restore' = [restore EXCEPT ![r] = z] /\ tree' = tree /\ content' = content /\ snap' = snap /\ todo' = todo
        /\ snap[s].state \in {"listed", "damaged"}
    BY <1>1 DEF RestoreSnapshot
  <2>2. IsRestore(z) /\ z.snap = s /\ z.tree = t /\ z.at = "found"
    BY DEF NoRestore, IsRestore
  <2> HIDE DEF z
  <2>3. RestoreFor(z, snap)
    BY <2>1, <2>2 DEF RestoreFor
  <2> QED
    BY <2>1, <2>2, <2>3, RestoreChanges
<1>2. CASE RestoreLists(r)
  <2> DEFINE s == restore[r].snap
             l == {f \in TreeFiles : snap[s].data[f] # NoFile}
             z == [restore[r] EXCEPT !.at = "walk", !.left = l]
  <2>1. /\ restore' = [restore EXCEPT ![r] = z] /\ tree' = tree /\ content' = content /\ snap' = snap /\ todo' = todo
        /\ restore[r].at = "found"
    BY <1>2 DEF RestoreLists
  <2> HIDE DEF l
  <2>2. IsRestore(z) /\ z.snap = s /\ z.tree = restore[r].tree /\ z.at = "walk" /\ z.left = l
    BY <1>a DEF IsRestore
  <2> HIDE DEF z
  <2>3. RestoreFor(z, snap)
    BY <1>a, <2>1, <2>2 DEF RestoreFor, l
  <2> QED
    BY <2>1, <2>2, <2>3, RestoreChanges
<1>3. CASE RestoreFails(r) \/ RestoreOver(r)
  <2>1. restore' = [restore EXCEPT ![r] = NoRestore] /\ tree' = tree /\ content' = content /\ snap' = snap /\ todo' = todo
    BY <1>3 DEF RestoreFails, RestoreOver
  <2>2. RestoreFor(NoRestore, snap)
    BY NoRestoreFacts DEF RestoreFor
  <2> QED
    BY <2>1, <2>2, NoRestoreFacts, RestoreChanges
<1>4. CASE RestoreReturns(r)
  <2> DEFINE z == [restore[r] EXCEPT !.at = "ok"]
  <2>1. /\ restore' = [restore EXCEPT ![r] = z] /\ tree' = tree /\ content' = content /\ snap' = snap /\ todo' = todo
        /\ restore[r].at = "walk" /\ restore[r].left = {}
    BY <1>4 DEF RestoreReturns
  <2>2. IsRestore(z) /\ z.snap = restore[r].snap /\ z.tree = restore[r].tree /\ z.at = "ok" /\ z.put = restore[r].put
    <3>1. PICK q : q = restore[r]
      OBVIOUS
    <3>2. IsRestore(q)
      BY <1>a, <3>1
    <3>3. PICK y : y = [q EXCEPT !.at = "ok"]
      OBVIOUS
    <3>4. IsRestore(y)
      BY <3>2, <3>3 DEF IsRestore
    <3>5. y.snap = q.snap /\ y.tree = q.tree /\ y.at = "ok" /\ y.put = q.put
      BY <3>2, <3>3 DEF IsRestore
    <3> QED
      BY <3>1, <3>3, <3>4, <3>5
  <2> HIDE DEF z
  <2>3. RestoreFor(z, snap)
    <3>1. PICK q : q = restore[r]
      OBVIOUS
    <3>2. RestoreFor(q, snap) /\ q.at = "walk" /\ q.left = {} /\ z.snap = q.snap /\ z.tree = q.tree /\ z.put = q.put
      BY <1>a, <2>1, <2>2, <3>1
    <3>3. z.snap \in Snaps /\ z.tree \in Trees /\ snap[z.snap].state \notin {"new", "creating"}
      BY <3>2 DEF RestoreFor
    <3>4. ASSUME snap[z.snap].state = "listed", NEW f \in TreeFiles, snap[z.snap].data[f] # NoFile
          PROVE  \E p \in z.put : p[1] = f /\ (f \notin snap[z.snap].linked => p[2] = snap[z.snap].copied[f])
      BY <3>2, <3>4 DEF RestoreFor
    <3> QED
      BY <3>3, <3>4 DEF RestoreFor
  <2> QED
    BY <2>1, <2>2, <2>3, RestoreChanges
<1>5. ASSUME NEW f \in TreeFiles, RestoreFile(r, f) PROVE SnapInv'
  BY <1>5, RestoreFileInv
<1> QED
  BY <1>1, <1>2, <1>3, <1>4, <1>5 DEF RestoreStep

\* Snapshots are whole, stay as they were taken until a restore links their files,
\* and are restored as they are, however writes, restores and deletions interleave.
THEOREM SnapshotsAlwaysSafe == SnapshotSpec => []SnapshotsSafe
<1>1. SnapshotInit => SnapInv
  <2> SUFFICES ASSUME SnapshotInit PROVE SnapInv
    OBVIOUS
  <2>1. /\ \A s \in Snaps : snap[s] = NoSnap
        /\ \A r \in Restorers : restore[r] = NoRestore
    BY DEF SnapshotInit
  <2>2. SnapTypes
    <3> DEFINE own == CHOOSE g \in [Trees \X TreeFiles -> SnapInodes] :
                         \A x, y \in Trees \X TreeFiles : g[x] = g[y] => x = y
    <3>1. tree = [t \in Trees |-> [f \in TreeFiles |-> own[<<t, f>>]]]
      BY Zenon DEF SnapshotInit
    <3> HIDE DEF own
    <3>2. tree = [t \in Trees |-> tree[t]] /\ \A t \in Trees : tree[t] = [f \in TreeFiles |-> tree[t][f]]
      BY <3>1
    <3> QED
      BY <2>1, <3>2, NoSnapFacts, NoRestoreFacts DEF SnapshotInit, SnapTypes
  <2>3. SnapApart /\ SnapshotKept /\ OneHolder
    BY <2>1, NoSnapFacts DEF SnapApart, SnapshotKept, OneHolder, Held
  <2>4. ShadowCopied /\ RestoresHold
    BY <2>1, NoSnapFacts, NoRestoreFacts DEF ShadowCopied, ShadowFor, RestoresHold, RestoreFor
  <2> QED
    BY <2>2, <2>3, <2>4 DEF SnapInv
<1>2. SnapInv /\ [SnapshotNext]_snapVars => SnapInv'
  <2> SUFFICES ASSUME SnapInv, [SnapshotNext]_snapVars PROVE SnapInv'
    OBVIOUS
  <2>1. CASE UNCHANGED snapVars
    <3>1. tree' = tree /\ content' = content /\ snap' = snap /\ todo' = todo /\ restore' = restore
      BY <2>1 DEF snapVars
    <3> QED
      BY <3>1 DEF SnapInv, SnapTypes, SnapApart, SnapshotKept, OneHolder, ShadowCopied, RestoresHold
  <2>2. CASE SnapshotNext
    BY <2>2, SnapStepInv, RestoreStepInv, SandboxStepInv DEF SnapshotNext
  <2> QED
    BY <2>1, <2>2
<1>3. SnapInv => SnapshotsSafe
  <2> SUFFICES ASSUME SnapInv PROVE SnapshotsSafe
    OBVIOUS
  <2>1. RestoreExact
    <3> SUFFICES ASSUME NEW r \in Restorers, restore[r].at = "ok", snap[restore[r].snap].state = "listed",
                        NEW f \in TreeFiles, snap[restore[r].snap].data[f] # NoFile
                 PROVE  \E p \in restore[r].put : p[1] = f /\ (f \notin snap[restore[r].snap].linked => p[2] = snap[restore[r].snap].copied[f])
      BY DEF RestoreExact
    <3>1. RestoreFor(restore[r], snap)
      BY DEF SnapInv, RestoresHold
    <3> QED
      BY <3>1 DEF RestoreFor
  <2>2. ListedComplete
    <3> SUFFICES ASSUME NEW s \in Snaps, snap[s].state = "listed", snap[s].vss PROVE snap[s].copied = snap[s].shadow
      BY DEF ListedComplete
    <3>1. \A f \in TreeFiles : snap[s].copied[f] = snap[s].shadow[f]
      BY DEF SnapInv, ShadowCopied, ShadowFor
    <3>2. snap[s].copied = [f \in TreeFiles |-> snap[s].copied[f]] /\ snap[s].shadow = [f \in TreeFiles |-> snap[s].shadow[f]]
      BY DEF SnapInv, SnapTypes, IsSnap
    <3> QED
      BY <3>1, <3>2
  <2> QED
    BY <2>1, <2>2 DEF SnapshotsSafe, SnapInv
<1> QED
  BY <1>1, <1>2, <1>3, PTL DEF SnapshotSpec

-----------------------------------------------------------------------------
(* State recovery and migration *)

\* What the store can hold for a sandbox.
BoxRecords ==
    [node : Hosts \cup {NoRecord}, phase : {"Running", "Creating", "Pending"},
     runtime : BOOLEAN, late : BOOLEAN]

\* The records, what RecoverAll has read of them, and the migrations.
RecoveryTypes ==
    /\ hosts \in [Hosts -> NodePhases \cup {NoRecord}]
    /\ boxes \in [Boxes -> BoxRecords \cup {NoRecord}]
    /\ recovery \in [at : {"off", "nodes", "sandboxes", "done"}, left : SUBSET (Boxes \cup Hosts),
                     boxes : [Boxes -> BoxRecords \cup {NoRecord}],
                     hosts : [Hosts -> NodePhases \cup {NoRecord}]]
    /\ mover \in [Movers -> [at : {"none", "get", "checkpoint", "restore", "cleanup"},
                             box : Boxes \cup {NoRecord}, to : Hosts \cup {NoRecord},
                             read : BoxRecords \cup {NoRecord}]]
    /\ migrating \in [Boxes -> {"none", "Pending", "Checkpoint", "Restore", "Cleanup", "Complete", "Failed"}]

\* The nodes that RecoverAll is done with are not running; those it has before it are
\* as it has read them, unless others have written them.
NodesRecovered ==
    /\ recovery.at = "nodes" =>
          /\ recovery.left \subseteq Hosts
          /\ \A h \in Hosts \ since : h \in recovery.left => hosts[h] = recovery.hosts[h]
          /\ \A h \in Hosts \ since : h \notin recovery.left => hosts[h] # "Running"
    /\ recovery.at \in {"sandboxes", "done"} => \A h \in Hosts \ since : hosts[h] # "Running"

\* The same of the sandboxes.
SandboxesRecovered ==
    /\ recovery.at = "sandboxes" =>
          /\ recovery.left \subseteq Boxes
          /\ \A b \in recovery.left : recovery.boxes[b] # NoRecord
          /\ \A b \in Boxes \ since : b \in recovery.left => boxes[b] = recovery.boxes[b]
          /\ \A b \in Boxes \ since : b \notin recovery.left => boxes[b] = NoRecord \/ ~ Stale(boxes[b])
    /\ recovery.at = "done" => \A b \in Boxes \ since : boxes[b] = NoRecord \/ ~ Stale(boxes[b])

\* The entry of a migration under way says how far it is, and the migration has a
\* checkpoint from its third step on.
EntrySays ==
    /\ \A m \in Movers : mover[m].at # "none" =>
          /\ mover[m].box \in Boxes
          /\ mover[m].at = "get" => migrating[mover[m].box] = "Pending"
          /\ mover[m].at = "checkpoint" => migrating[mover[m].box] = "Checkpoint" /\ mover[m].read # NoRecord
          /\ mover[m].at = "restore" => migrating[mover[m].box] = "Restore" /\ mover[m].read # NoRecord
          /\ mover[m].at = "cleanup" => migrating[mover[m].box] = "Cleanup"
    /\ checkpoints \subseteq Boxes

\* The inductive invariant: RecoverAll and the migrations in flight know what
\* they have read, and what is done of it.
RecoveryInv == RecoveryTypes /\ NodesRecovered /\ SandboxesRecovered /\ EntrySays /\ OneMigration

\* A record of a sandbox that is on no node yet.
LEMMA NewRecord ==
    ASSUME NEW p \in {"Running", "Creating"}, NEW x \in BOOLEAN, NEW y \in BOOLEAN
    PROVE  [node |-> NoRecord, phase |-> p, runtime |-> x, late |-> y] \in BoxRecords
  BY DEF BoxRecords

\* What MigrateSandbox makes of a record.
LEMMA MovedRecord ==
    ASSUME NEW r \in BoxRecords, NEW n \in Hosts \cup {NoRecord}
    PROVE  [r EXCEPT !.node = n, !.phase = "Running"] \in BoxRecords
  BY Zenon DEF BoxRecords

\* A write of a node by others.
LEMMA PutNodeInv ==
    ASSUME RecoveryInv, NEW h \in Hosts, NEW p \in NodePhases \cup {NoRecord}, PutNode(h, p)
    PROVE  RecoveryInv'
<1>1. RecoveryTypes'
  BY DEF PutNode, RecoveryInv, RecoveryTypes
<1>2. NodesRecovered'
  BY DEF PutNode, RecoveryInv, RecoveryTypes, NodesRecovered
<1>3. SandboxesRecovered' /\ EntrySays' /\ OneMigration'
  BY DEF PutNode, RecoveryInv, SandboxesRecovered, EntrySays, OneMigration
<1> QED
  BY <1>1, <1>2, <1>3 DEF RecoveryInv

\* A write of a sandbox by others.
LEMMA PutSandboxInv ==
    ASSUME RecoveryInv, NEW b \in Boxes, NEW r \in OtherPuts, PutSandbox(b, r)
    PROVE  RecoveryInv'
<1>1. r \in BoxRecords \cup {NoRecord}
  <2>1. [node |-> NoRecord, phase |-> "Running", runtime |-> TRUE, late |-> FALSE] \in BoxRecords
    BY NewRecord
  <2> QED
    BY <2>1, Zenon DEF OtherPuts
<1>2. RecoveryTypes'
  BY <1>1 DEF PutSandbox, RecoveryInv, RecoveryTypes
<1>3. SandboxesRecovered'
  <2>1. since' = since \cup {b} /\ recovery' = recovery /\ \A c \in Boxes : c # b => boxes'[c] = boxes[c]
    BY DEF PutSandbox, RecoveryInv, RecoveryTypes
  <2> QED
    BY <2>1 DEF RecoveryInv, SandboxesRecovered
<1>4. NodesRecovered' /\ EntrySays' /\ OneMigration'
  BY DEF PutSandbox, RecoveryInv, NodesRecovered, EntrySays, OneMigration
<1> QED
  BY <1>2, <1>3, <1>4 DEF RecoveryInv

\* The steps of RecoverAll.
LEMMA RecoverInv ==
    ASSUME RecoveryAssumption, RecoveryInv, RecoverStep
    PROVE  RecoveryInv'
<1> USE DEF RecoveryAssumption
<1>1. ASSUME migrating' = migrating, mover' = mover, checkpoints' = checkpoints
      PROVE  EntrySays' /\ OneMigration'
  BY <1>1 DEF RecoveryInv, EntrySays, OneMigration
<1>2. CASE RecoverAll
  <2>1. RecoveryTypes'
    BY <1>2 DEF RecoverAll, RecoveryInv, RecoveryTypes, Listed
  <2>2. NodesRecovered' /\ SandboxesRecovered'
    BY <1>2 DEF RecoverAll, RecoveryInv, RecoveryTypes, NodesRecovered, SandboxesRecovered, Listed, NodePhases
  <2> QED
    BY <1>1, <1>2, <2>1, <2>2 DEF RecoverAll, RecoveryInv
<1>3. CASE listSandboxes
  <2>1. RecoveryTypes'
    BY <1>3 DEF listSandboxes, RecoveryInv, RecoveryTypes, Listed
  <2>2. NodesRecovered' /\ SandboxesRecovered'
    BY <1>3 DEF listSandboxes, RecoveryInv, RecoveryTypes, NodesRecovered, SandboxesRecovered, Listed
  <2> QED
    BY <1>1, <1>3, <2>1, <2>2 DEF listSandboxes, RecoveryInv
<1>4. CASE RecoverDone
  <2>1. RecoveryTypes'
    BY <1>4 DEF RecoverDone, RecoveryInv, RecoveryTypes
  <2>2. NodesRecovered' /\ SandboxesRecovered'
    BY <1>4 DEF RecoverDone, RecoveryInv, RecoveryTypes, NodesRecovered, SandboxesRecovered
  <2> QED
    BY <1>1, <1>4, <2>1, <2>2 DEF RecoverDone, RecoveryInv
<1>5. CASE RecoverFails
  <2>1. RecoveryTypes'
    BY <1>5 DEF RecoverFails, NotRecovering, RecoveryInv, RecoveryTypes
  <2>2. NodesRecovered' /\ SandboxesRecovered'
    BY <1>5 DEF RecoverFails, NotRecovering, RecoveryInv, RecoveryTypes, NodesRecovered, SandboxesRecovered
  <2> QED
    BY <1>1, <1>5, <2>1, <2>2 DEF RecoverFails, RecoveryInv
<1>6. ASSUME NEW h \in Hosts, recoverNode(h) PROVE RecoveryInv'
  <2>1. RecoveryTypes'
    BY <1>6 DEF recoverNode, RecoveryInv, RecoveryTypes, NodePhases
  <2>2. NodesRecovered'
    BY <1>6 DEF recoverNode, RecoveryInv, RecoveryTypes, NodesRecovered
  <2>3. SandboxesRecovered'
    BY <1>6 DEF recoverNode, RecoveryInv, RecoveryTypes, SandboxesRecovered
  <2> QED
    BY <1>1, <1>6, <2>1, <2>2, <2>3 DEF recoverNode, RecoveryInv
<1>7. ASSUME NEW b \in Boxes, ReconcileSandboxState(b) PROVE RecoveryInv'
  <2> DEFINE r == recovery.boxes[b]
             fixed == [r EXCEPT !.phase = "Pending"]
  <2>1. r \in BoxRecords /\ recovery.at = "sandboxes" /\ recovery.at' = "sandboxes"
        /\ recovery.left' = recovery.left \ {b} /\ recovery.boxes' = recovery.boxes
        /\ recovery.left \subseteq Boxes
    BY <1>7 DEF ReconcileSandboxState, RecoveryInv, RecoveryTypes, SandboxesRecovered
  <2>2. fixed \in BoxRecords /\ ~ Stale(fixed)
    BY <2>1 DEF BoxRecords, Stale
  <2> HIDE DEF fixed
  <2>3. \/ Stale(r) /\ boxes' = [boxes EXCEPT ![b] = fixed] /\ since' = since
        \/ boxes' = boxes /\ since' = since \cup {b}
        \/ ~ Stale(r) /\ boxes' = boxes /\ since' = since
    BY <1>7 DEF ReconcileSandboxState, fixed
  <2>4. RecoveryTypes'
    BY <1>7, <2>2, <2>3 DEF ReconcileSandboxState, RecoveryInv, RecoveryTypes
  <2>5. NodesRecovered'
    BY <1>7, <2>1, <2>3 DEF ReconcileSandboxState, RecoveryInv, NodesRecovered
  <2>6. SandboxesRecovered'
    <3>1. \A c \in Boxes : c # b => boxes'[c] = boxes[c]
      BY <2>3 DEF RecoveryInv, RecoveryTypes
    <3>2. b \notin since' => boxes'[b] = NoRecord \/ ~ Stale(boxes'[b])
      BY <1>7, <2>2, <2>3 DEF ReconcileSandboxState, RecoveryInv, RecoveryTypes, SandboxesRecovered
    <3> QED
      BY <2>1, <2>3, <3>1, <3>2 DEF RecoveryInv, SandboxesRecovered
  <2> QED
    BY <1>1, <1>7, <2>4, <2>5, <2>6 DEF ReconcileSandboxState, RecoveryInv
<1> QED
  BY <1>2, <1>3, <1>4, <1>5, <1>6, <1>7 DEF RecoverStep

\* A step of a migration that leaves the store alone.
LEMMA MigrateInv ==
    ASSUME RecoveryInv, RecoveryTypes', EntrySays', OneMigration',
           hosts' = hosts, boxes' = boxes, recovery' = recovery, since' = since
    PROVE  RecoveryInv'
  BY DEF RecoveryInv, NodesRecovered, SandboxesRecovered

\* A step of a caller m on the sandbox b, which is its own or nobody's: its entry says
\* how far it is, and it is still the only one.
LEMMA MoverInv ==
    ASSUME RecoveryTypes, EntrySays, OneMigration, NEW m \in Movers, NEW b \in Boxes, NEW x, NEW p,
           mover' = [mover EXCEPT ![m] = x], migrating' = [migrating EXCEPT ![b] = p],
           (mover[m].at # "none" /\ mover[m].box = b) \/ (mover[m].at = "none" /\ migrating[b] = "none"),
           x.at # "none" => x.box = b,
           x.at = "get" => p = "Pending",
           x.at = "checkpoint" => p = "Checkpoint" /\ x.read # NoRecord,
           x.at = "restore" => p = "Restore" /\ x.read # NoRecord,
           x.at = "cleanup" => p = "Cleanup",
           checkpoints' \subseteq checkpoints \cup {b},
           b \in checkpoints' => p \in {"Restore", "Cleanup", "Failed"}
    PROVE  EntrySays' /\ OneMigration'
<1>1. mover'[m] = x /\ \A n \in Movers : n # m => mover'[n] = mover[n]
  BY DEF RecoveryTypes
<1>2. migrating'[b] = p /\ \A c \in Boxes : c # b => migrating'[c] = migrating[c]
  BY DEF RecoveryTypes
<1>3. \A n \in Movers : mover[n].at \in {"none", "get", "checkpoint", "restore", "cleanup"}
  BY DEF RecoveryTypes
<1>4. ASSUME NEW n \in Movers, n # m, mover[n].at # "none" PROVE mover[n].box \in Boxes /\ mover[n].box # b
  <2>1. mover[n].box \in Boxes
    BY <1>4 DEF EntrySays
  <2>2. migrating[mover[n].box] # "none"
    BY <1>3, <1>4 DEF EntrySays
  <2>3. mover[m].at # "none" => mover[n].box # mover[m].box
    BY <1>4 DEF OneMigration
  <2> QED
    BY <2>1, <2>2, <2>3
<1>5. ASSUME NEW n \in Movers, mover'[n].at # "none"
      PROVE  /\ mover'[n].box \in Boxes
             /\ mover'[n].at = "get" => migrating'[mover'[n].box] = "Pending"
             /\ mover'[n].at = "checkpoint" => migrating'[mover'[n].box] = "Checkpoint" /\ mover'[n].read # NoRecord
             /\ mover'[n].at = "restore" => migrating'[mover'[n].box] = "Restore" /\ mover'[n].read # NoRecord
             /\ mover'[n].at = "cleanup" => migrating'[mover'[n].box] = "Cleanup"
  <2>1. CASE n = m
    BY <1>1, <1>2, <1>5, <2>1
  <2>2. CASE n # m
    <3>1. mover'[n] = mover[n] /\ mover[n].box \in Boxes /\ mover[n].box # b
      BY <1>1, <1>4, <1>5, <2>2
    <3>2. migrating'[mover[n].box] = migrating[mover[n].box]
      BY <1>2, <3>1
    <3> QED
      BY <1>5, <3>1, <3>2 DEF EntrySays
  <2> QED
    BY <2>1, <2>2
<1>6. checkpoints' \subseteq Boxes
  BY DEF EntrySays
<1>7. EntrySays'
  BY <1>5, <1>6 DEF EntrySays
<1>8. ASSUME NEW k \in Movers, NEW n \in Movers, k # n, mover'[k].at # "none", mover'[n].at # "none"
      PROVE  mover'[k].box # mover'[n].box
  <2>1. CASE k = m
    BY <1>1, <1>4, <1>8, <2>1
  <2>2. CASE n = m
    BY <1>1, <1>4, <1>8, <2>2
  <2>3. CASE k # m /\ n # m
    BY <1>1, <1>8, <2>3 DEF OneMigration
  <2> QED
    BY <2>1, <2>2, <2>3
<1>9. ASSUME NEW c \in checkpoints' PROVE migrating'[c] \in {"Restore", "Cleanup", "Failed"}
  BY <1>2, <1>6, <1>9 DEF OneMigration
<1> QED
  BY <1>7, <1>8, <1>9 DEF OneMigration

\* Every step of MigrateSandbox.
LEMMA MigrationInv ==
    ASSUME RecoveryAssumption, RecoveryInv, NEW m \in Movers,
           MigrateStep(m) \/ \E b \in Boxes, h \in Hosts : MigrateSandbox(m, b, h)
    PROVE  RecoveryInv'
<1>a. RecoveryTypes /\ EntrySays /\ OneMigration
  BY DEF RecoveryInv
<1>1. ASSUME NEW b \in Boxes, NEW h \in Hosts, MigrateSandbox(m, b, h) PROVE RecoveryInv'
  <2> DEFINE x == [NoMove EXCEPT !.at = "get", !.box = b, !.to = h]
  <2>1. /\ mover' = [mover EXCEPT ![m] = x] /\ mover[m].at = "none"
        /\ migrating' = [migrating EXCEPT ![b] = "Pending"] /\ migrating[b] = "none"
        /\ hosts' = hosts /\ boxes' = boxes /\ recovery' = recovery /\ since' = since
        /\ checkpoints' = checkpoints
    <3>1. NoMove.at = "none"
      BY DEF NoMove
    <3> QED
      BY <1>1, <3>1 DEF MigrateSandbox
  <2>4. x.at = "get" /\ x.box = b
    BY DEF NoMove
  <2>a. x \in [at : {"none", "get", "checkpoint", "restore", "cleanup"},
               box : Boxes \cup {NoRecord}, to : Hosts \cup {NoRecord},
               read : BoxRecords \cup {NoRecord}]
    BY DEF NoMove
  <2> HIDE DEF x
  <2>2. RecoveryTypes'
    BY <2>1, <2>a DEF RecoveryInv, RecoveryTypes
  <2>3. b \notin checkpoints
    BY <2>1 DEF RecoveryInv, OneMigration
  <2>5. EntrySays' /\ OneMigration'
    BY <1>a, <2>1, <2>3, <2>4, MoverInv
  <2> QED
    BY <2>1, <2>2, <2>5, MigrateInv
<1>2. CASE MigrateGet(m)
  <2> DEFINE b == mover[m].box
             x == [mover[m] EXCEPT !.at = "checkpoint", !.read = boxes[b]]
  <2>1. b \in Boxes /\ mover[m].at = "get" /\ boxes[b] # NoRecord
    BY <1>2 DEF MigrateGet, RecoveryInv, EntrySays
  <2>2. x.at = "checkpoint" /\ x.box = b /\ x.read = boxes[b]
    BY DEF RecoveryInv, RecoveryTypes
  <2>3. b \notin checkpoints
    BY <2>1 DEF RecoveryInv, EntrySays, OneMigration
  <2>4. mover' = [mover EXCEPT ![m] = x] /\ migrating' = [migrating EXCEPT ![b] = "Checkpoint"]
    BY <1>2 DEF MigrateGet, RecoveryInv, RecoveryTypes
  <2>5. RecoveryTypes'
    <3> DEFINE rd == boxes[b]
    <3>1. rd \in BoxRecords \cup {NoRecord}
      BY <2>1 DEF RecoveryInv, RecoveryTypes
    <3>a. x = [mover[m] EXCEPT !.at = "checkpoint", !.read = rd]
      OBVIOUS
    <3>b. mover[m] \in [at : {"none", "get", "checkpoint", "restore", "cleanup"},
                 box : Boxes \cup {NoRecord}, to : Hosts \cup {NoRecord},
                 read : BoxRecords \cup {NoRecord}]
      BY DEF RecoveryInv, RecoveryTypes
    <3> HIDE DEF rd, x
    <3>2. x \in [at : {"none", "get", "checkpoint", "restore", "cleanup"},
                 box : Boxes \cup {NoRecord}, to : Hosts \cup {NoRecord},
                 read : BoxRecords \cup {NoRecord}]
      BY <3>1, <3>a, <3>b
    <3>3. hosts' = hosts /\ boxes' = boxes /\ recovery' = recovery
      BY <1>2 DEF MigrateGet
    <3> HIDE DEF b
    <3> QED
      BY <2>1, <2>4, <3>2, <3>3 DEF RecoveryInv, RecoveryTypes
  <2>6. checkpoints' = checkpoints /\ hosts' = hosts /\ boxes' = boxes /\ recovery' = recovery /\ since' = since
    BY <1>2 DEF MigrateGet
  <2> HIDE DEF b, x
  <2>7. EntrySays' /\ OneMigration'
    BY <1>a, <2>1, <2>2, <2>3, <2>4, <2>6, MoverInv DEF b
  <2> QED
    BY <2>5, <2>6, <2>7, MigrateInv
<1>3. CASE MigrateCheckpoint(m)
  <2> DEFINE b == mover[m].box
             x == [mover[m] EXCEPT !.at = "restore"]
  <2>1. b \in Boxes /\ mover[m].at = "checkpoint" /\ mover[m].read # NoRecord
    BY <1>3 DEF MigrateCheckpoint, RecoveryInv, EntrySays
  <2>2. x.at = "restore" /\ x.box = b /\ x.read = mover[m].read
    BY DEF RecoveryInv, RecoveryTypes
  <2>4. mover' = [mover EXCEPT ![m] = x] /\ migrating' = [migrating EXCEPT ![b] = "Restore"]
    BY <1>3 DEF MigrateCheckpoint, RecoveryInv, RecoveryTypes
  <2>5. RecoveryTypes'
    BY <1>3, <2>1 DEF MigrateCheckpoint, RecoveryInv, RecoveryTypes
  <2>6. checkpoints' = checkpoints \cup {b} /\ hosts' = hosts /\ boxes' = boxes /\ recovery' = recovery /\ since' = since
    BY <1>3 DEF MigrateCheckpoint
  <2> HIDE DEF b, x
  <2>7. EntrySays' /\ OneMigration'
    BY <1>a, <2>1, <2>2, <2>4, <2>6, MoverInv DEF b
  <2> QED
    BY <2>5, <2>6, <2>7, MigrateInv
<1>4. CASE MigrateUpdate(m)
  <2> DEFINE b == mover[m].box
             x == [mover[m] EXCEPT !.at = "cleanup"]
             new == [mover[m].read EXCEPT !.node = mover[m].to, !.phase = "Running"]
  <2>1. b \in Boxes /\ mover[m].at = "restore"
    BY <1>4 DEF MigrateUpdate, RecoveryInv, RecoveryTypes, EntrySays
  <2>a. new \in BoxRecords
    <3>1. mover[m].read \in BoxRecords /\ mover[m].to \in Hosts \cup {NoRecord}
      BY <1>4 DEF MigrateUpdate, RecoveryInv, RecoveryTypes, EntrySays
    <3> QED
      BY <3>1, MovedRecord
  <2>2. x.at = "cleanup" /\ x.box = b
    BY DEF RecoveryInv, RecoveryTypes
  <2>3. boxes' = [boxes EXCEPT ![b] = new] /\ since' = since \cup {b}
    BY <1>4 DEF MigrateUpdate
  <2>4. mover' = [mover EXCEPT ![m] = x] /\ migrating' = [migrating EXCEPT ![b] = "Cleanup"]
    BY <1>4 DEF MigrateUpdate, RecoveryInv, RecoveryTypes
  <2>6. checkpoints' = checkpoints /\ hosts' = hosts /\ recovery' = recovery
    BY <1>4 DEF MigrateUpdate
  <2> HIDE DEF new
  <2>5. RecoveryTypes'
    BY <1>4, <2>1, <2>a, <2>3, <2>6 DEF MigrateUpdate, RecoveryInv, RecoveryTypes
  <2> HIDE DEF b, x
  <2>7. EntrySays' /\ OneMigration'
    BY <1>a, <2>1, <2>2, <2>4, <2>6, MoverInv DEF b
  <2>8. NodesRecovered'
    BY <2>1, <2>3, <2>6 DEF RecoveryInv, NodesRecovered, RecoveryAssumption
  <2>9. SandboxesRecovered'
    BY <2>1, <2>3, <2>6 DEF RecoveryInv, RecoveryTypes, SandboxesRecovered
  <2> QED
    BY <2>5, <2>7, <2>8, <2>9 DEF RecoveryInv
<1>5. CASE MigrateComplete(m) \/ failMigration(m)
  <2> DEFINE b == mover[m].box
  <2>1. b \in Boxes /\ mover[m].at # "none" /\ NoMove.at = "none"
    BY <1>5 DEF MigrateComplete, failMigration, RecoveryInv, EntrySays, NoMove
  <2>2. PICK p \in {"Complete", "Failed"} :
           /\ migrating' = [migrating EXCEPT ![b] = p]
           /\ p = "Complete" => b \notin checkpoints'
    BY <1>5 DEF MigrateComplete, failMigration
  <2>4. mover' = [mover EXCEPT ![m] = NoMove] /\ checkpoints' \subseteq checkpoints
    BY <1>5 DEF MigrateComplete, failMigration
  <2>5. RecoveryTypes'
    BY <1>5, <2>1, <2>2 DEF MigrateComplete, failMigration, NoMove, RecoveryInv, RecoveryTypes
  <2>6. hosts' = hosts /\ boxes' = boxes /\ recovery' = recovery /\ since' = since
    BY <1>5 DEF MigrateComplete, failMigration
  <2> HIDE DEF b
  <2>7. EntrySays' /\ OneMigration'
    BY <1>a, <2>1, <2>2, <2>4, MoverInv DEF b
  <2> QED
    BY <2>5, <2>6, <2>7, MigrateInv
<1> QED
  BY <1>1, <1>2, <1>3, <1>4, <1>5 DEF MigrateStep

\* For any sandboxes, nodes and callers: what RecoverAll leaves is consistent but for
\* what others have written since or it could not write, and a sandbox is moved by one
\* migration at a time.
THEOREM RecoveryAlwaysSafe == RecoverySpec => []RecoverySafe
<1>1. RecoveryInit => RecoveryInv
  <2> SUFFICES ASSUME RecoveryInit PROVE RecoveryInv
    OBVIOUS
  <2> DEFINE Made == {[node |-> NoRecord, phase |-> "Running", runtime |-> x, late |-> FALSE] : x \in BOOLEAN}
                     \cup {[node |-> NoRecord, phase |-> "Creating", runtime |-> FALSE, late |-> x] : x \in BOOLEAN}
  <2>a. \A x \in BOOLEAN : [node |-> NoRecord, phase |-> "Running", runtime |-> x, late |-> FALSE] \in BoxRecords
    BY NewRecord
  <2>b. \A x \in BOOLEAN : [node |-> NoRecord, phase |-> "Creating", runtime |-> FALSE, late |-> x] \in BoxRecords
    BY NewRecord
  <2>c. Made \subseteq BoxRecords
    BY <2>a, <2>b, Zenon
  <2>d. boxes \in [Boxes -> {NoRecord} \cup Made]
    BY Zenon DEF RecoveryInit
  <2> HIDE DEF Made
  <2>1. boxes \in [Boxes -> BoxRecords \cup {NoRecord}]
    BY <2>c, <2>d
  <2>2. RecoveryTypes
    BY <2>1 DEF RecoveryInit, RecoveryTypes, NotRecovering, NoMove
  <2>3. NodesRecovered /\ SandboxesRecovered
    BY DEF RecoveryInit, NotRecovering, NodesRecovered, SandboxesRecovered
  <2>4. checkpoints = {} /\ \A m \in Movers : mover[m].at = "none"
    BY DEF RecoveryInit, NoMove
  <2>5. EntrySays /\ OneMigration
    BY <2>4 DEF EntrySays, OneMigration
  <2> QED
    BY <2>2, <2>3, <2>5 DEF RecoveryInv
<1>2. RecoveryInv => RecoverySafe
  BY DEF RecoveryInv, NodesRecovered, SandboxesRecovered, RecoverySafe, RecoveredConsistent, Stale
<1>3. RecoveryInv /\ [RecoveryNext]_recoveryVars => RecoveryInv'
  <2>1. CASE UNCHANGED recoveryVars
    BY <2>1 DEF recoveryVars, RecoveryInv, RecoveryTypes, NodesRecovered, SandboxesRecovered, EntrySays, OneMigration
  <2> QED
    BY <2>1, RecoverInv, MigrationInv, PutNodeInv, PutSandboxInv, RecoveryAssumption DEF RecoveryNext
<1> QED
  BY <1>1, <1>2, <1>3, PTL DEF RecoverySpec

-----------------------------------------------------------------------------
(* Shell sessions: the ring buffer.  A line is at its number modulo the     *)
(* size, so two lines that are both kept never share a place.              *)

\* What is left of a division.
LEMMA Remainder ==
    ASSUME NEW k \in Nat, NEW b \in Nat \ {0}
    PROVE  \E q \in Int, r \in 0..(b - 1) : r = k % b /\ k = q * b + r
<1>1. k % b \in 0..(b - 1)
  OBVIOUS
<1>2. PICK q \in Int : q = k \div b
  OBVIOUS
<1>3. k % b = k - b * (k \div b)
  OBVIOUS
<1>4. PICK r \in 0..(b - 1) : r = k % b
  BY <1>1
<1>5. PICK c \in Int : c = b * q
  OBVIOUS
<1>6. k = c + r
  BY <1>2, <1>3, <1>4, <1>5
<1>7. c = q * b
  BY <1>5
<1> QED
  BY <1>4, <1>6, <1>7

\* There is only one such remainder.
LEMMA OneRemainder ==
    ASSUME NEW b \in Nat \ {0}, NEW p \in Int, NEW q \in Int, NEW r \in 0..(b - 1), NEW s \in 0..(b - 1),
           p * b + r = q * b + s
    PROVE  p = q /\ r = s
<1>1. PICK c \in Int, d \in Int : c = p * b /\ d = q * b
  OBVIOUS
<1>2. ASSUME p < q PROVE FALSE
  <2>1. p + 1 <= q
    BY <1>2
  <2>2. (p + 1) * b <= q * b
    BY <2>1
  <2>3. (p + 1) * b = p * b + b
    OBVIOUS
  <2> QED
    BY <1>1, <2>2, <2>3
<1>3. ASSUME q < p PROVE FALSE
  <2>1. q + 1 <= p
    BY <1>3
  <2>2. (q + 1) * b <= p * b
    BY <2>1
  <2>3. (q + 1) * b = q * b + b
    OBVIOUS
  <2> QED
    BY <1>1, <2>2, <2>3
<1>4. p = q
  BY <1>2, <1>3
<1> QED
  BY <1>1, <1>4

LEMMA RemainderIs ==
    ASSUME NEW k \in Nat, NEW b \in Nat \ {0}, NEW q \in Int, NEW r \in 0..(b - 1), k = q * b + r
    PROVE  k % b = r
<1>1. PICK p \in Int, s \in 0..(b - 1) : s = k % b /\ k = p * b + s
  BY Remainder
<1>2. p * b + s = q * b + r
  BY <1>1
<1>3. s = r
  BY <1>2, OneRemainder
<1> QED
  BY <1>1, <1>3

\* Two numbers less than b apart have different remainders.
LEMMA Near ==
    ASSUME NEW b \in Nat \ {0}, NEW j \in Nat, NEW k \in Nat, j < k, k - j < b
    PROVE  j % b # k % b
<1> SUFFICES ASSUME j % b = k % b PROVE FALSE
  OBVIOUS
<1>1. PICK p \in Int, r \in 0..(b - 1) : r = j % b /\ j = p * b + r
  BY Remainder
<1>2. PICK q \in Int, s \in 0..(b - 1) : s = k % b /\ k = q * b + s
  BY Remainder
<1>3. r = s
  BY <1>1, <1>2
<1>4. PICK c \in Int, d \in Int : c = p * b /\ d = q * b
  OBVIOUS
<1>5. d - c = k - j
  BY <1>1, <1>2, <1>3, <1>4
<1>6. CASE q <= p
  <2>1. q * b <= p * b
    BY <1>6
  <2> QED
    BY <1>4, <1>5, <2>1
<1>7. CASE q > p
  <2>1. (p + 1) * b <= q * b
    <3>1. p + 1 <= q
      BY <1>7
    <3> QED
      BY <3>1
  <2>2. (p + 1) * b = p * b + b
    OBVIOUS
  <2> QED
    BY <1>4, <1>5, <2>1, <2>2
<1> QED
  BY <1>6, <1>7

\* The buffer has the last lines, each at its place.
Ringed(rb, all) ==
    /\ rb \in RingBuffers /\ rb.pos = Len(all)
    /\ \A j \in 0..(Len(all) - 1) : Len(all) - j <= BufSize => rb.data[j % BufSize] = all[j + 1]

LEMMA RingStarts == Ringed(NewRingBuffer, <<>>)
<1>1. NewRingBuffer \in RingBuffers
  BY DEF NewRingBuffer, RingBuffers
<1>2. NewRingBuffer.pos = 0 /\ Len(<<>>) = 0
  BY DEF NewRingBuffer
<1> QED
  BY <1>1, <1>2 DEF Ringed

LEMMA RingGrows ==
    ASSUME NEW all \in Seq(Lines), NEW rb, Ringed(rb, all), NEW line \in Lines
    PROVE  Ringed(RingWrite(rb, line), Append(all, line))
<1>1. PICK m \in Nat : m = Len(all)
  OBVIOUS
<1>2. PICK t : t = Append(all, line)
  OBVIOUS
<1>3. t \in Seq(Lines) /\ Len(t) = m + 1 /\ t[m + 1] = line /\ \A j \in 1..m : t[j] = all[j]
  BY <1>1, <1>2
<1>4. BufSize \in Nat \ {0}
  BY SessionAssumption
<1>5. PICK r \in 0..(BufSize - 1) : r = m % BufSize
  BY <1>4, Remainder
<1>6. PICK d : d = [rb.data EXCEPT ![r] = line]
  OBVIOUS
<1>7. rb.data \in [0..(BufSize - 1) -> Lines \cup {<<>>}] /\ rb.pos = m
  BY <1>1 DEF Ringed, RingBuffers
<1>8. /\ d \in [0..(BufSize - 1) -> Lines \cup {<<>>}] /\ d[r] = line
      /\ \A i \in 0..(BufSize - 1) : i # r => d[i] = rb.data[i]
  BY <1>6, <1>7
<1>9. RingWrite(rb, line) = [data |-> d, pos |-> m + 1]
  BY <1>5, <1>6, <1>7 DEF RingWrite
<1>10. ASSUME NEW j \in 0..m, (m + 1) - j <= BufSize PROVE d[j % BufSize] = t[j + 1]
  <2>1. CASE j = m
    BY <1>3, <1>5, <1>8, <2>1
  <2>2. CASE j # m
    <3>1. j \in Nat /\ j < m /\ m - j < BufSize /\ m - j <= BufSize /\ j \in 0..(m - 1) /\ j + 1 \in 1..m
      BY <1>4, <1>10, <2>2
    <3>2. j % BufSize # r
      BY <1>4, <1>5, <3>1, Near
    <3>3. j % BufSize \in 0..(BufSize - 1)
      BY <1>4, <3>1, Remainder
    <3>4. rb.data[j % BufSize] = all[j + 1]
      BY <1>1, <3>1 DEF Ringed
    <3> QED
      BY <1>3, <1>8, <3>1, <3>2, <3>3, <3>4
  <2> QED
    BY <2>1, <2>2
<1>11. PICK rc : rc = [data |-> d, pos |-> m + 1]
  OBVIOUS
<1>12. rc \in RingBuffers /\ rc.data = d /\ rc.pos = m + 1
  BY <1>8, <1>11 DEF RingBuffers
<1>13. Ringed(rc, t)
  <2>1. (m + 1) - 1 = m
    OBVIOUS
  <2> QED
    BY <1>3, <1>10, <1>12, <2>1 DEF Ringed
<1> QED
  BY <1>2, <1>9, <1>11, <1>13

\* A function on the numbers up to n is a sequence of n elements.
LEMMA FunctionIsList ==
    ASSUME NEW S, NEW n \in Nat, NEW g \in [1..n -> S]
    PROVE  g \in Seq(S) /\ Len(g) = n
<1>1. g \in Seq(S)
  OBVIOUS
<1> QED
  BY <1>1

\* What is read are the last lines, in their order.
LEMMA RingReads ==
    ASSUME NEW all \in Seq(Lines), NEW rb, Ringed(rb, all)
    PROVE  /\ RingRead(rb) = SubSeq(all, Len(all) - Len(RingRead(rb)) + 1, Len(all))
           /\ Len(RingRead(rb)) = IF Len(all) < BufSize THEN Len(all) ELSE BufSize
<1>1. PICK m \in Nat : m = Len(all)
  OBVIOUS
<1>2. BufSize \in Nat \ {0} /\ rb.pos = m
  BY <1>1, SessionAssumption DEF Ringed
<1>3. PICK n \in Nat : n = IF m < BufSize THEN m ELSE BufSize
  BY <1>2
<1>4. n <= m /\ n <= BufSize
  BY <1>2, <1>3
<1>5. PICK out : out = RingRead(rb)
  OBVIOUS
<1>6. \E f : out = [i \in 1..n |-> f[i]] /\ \A i \in 1..n : f[i] = all[m - n + i]
  <2>1. \A j \in 0..(m - 1) : m - j <= BufSize => rb.data[j % BufSize] = all[j + 1]
    BY <1>1 DEF Ringed
  <2>2. CASE m <= BufSize
    <3>1. n = m
      BY <1>2, <1>3, <2>2
    <3>2. out = [i \in 1..n |-> rb.data[i - 1]]
      BY <1>2, <1>5, <2>2, <3>1 DEF RingRead
    <3>3. ASSUME NEW i \in 1..n PROVE rb.data[i - 1] = all[m - n + i]
      <4>1. i - 1 \in 0..(m - 1) /\ m - (i - 1) <= BufSize /\ i - 1 \in 0..(BufSize - 1) /\ i - 1 \in Nat
        BY <1>2, <2>2, <3>1
      <4>2. (i - 1) % BufSize = i - 1
        <5>1. PICK k \in 0..(BufSize - 1) : k = i - 1 /\ k \in Nat
          BY <4>1
        <5>2. k = 0 * BufSize + k
          BY <1>2
        <5>3. k % BufSize = k
          BY <1>2, <5>1, <5>2, RemainderIs
        <5> QED
          BY <5>1, <5>3
      <4>3. (i - 1) + 1 = i /\ m - n + i = i
        BY <3>1
      <4> QED
        BY <2>1, <4>1, <4>2, <4>3
    <3> DEFINE f == [i \in 1..n |-> rb.data[i - 1]]
    <3>4. out = [i \in 1..n |-> f[i]] /\ \A i \in 1..n : f[i] = all[m - n + i]
      BY <3>2, <3>3
    <3> QED
      BY <3>4
  <2>3. CASE m > BufSize
    <3>1. n = BufSize
      BY <1>2, <1>3, <2>3
    <3>2. PICK q \in Int, start \in 0..(BufSize - 1) : start = m % BufSize /\ m = q * BufSize + start
      BY <1>2, Remainder
    <3> DEFINE f == [i \in 1..n |-> IF i <= BufSize - start THEN rb.data[start + i - 1]
                                    ELSE rb.data[i - (BufSize - start) - 1]]
    <3>3. out = f
      BY <1>2, <1>5, <2>3, <3>1, <3>2 DEF RingRead
    <3>4. PICK c \in Int : c = q * BufSize
      BY <1>2
    <3>7. m = c + start
      BY <3>2, <3>4
    <3>8. PICK p \in Int : p = q - 1
      OBVIOUS
    <3>9. p * BufSize = c - BufSize
      BY <1>2, <3>4, <3>8
    <3>5. ASSUME NEW i \in 1..n PROVE f[i] = all[m - n + i]
      <4>1. PICK j \in Nat : j = m - BufSize + i - 1
        BY <1>2, <2>3, <3>1
      <4>2. j \in 0..(m - 1) /\ m - j <= BufSize /\ j + 1 = m - n + i
        BY <1>2, <2>3, <3>1, <4>1
      <4>3. rb.data[j % BufSize] = all[m - n + i]
        BY <2>1, <4>2
      <4>5. CASE i <= BufSize - start
        <5>1. PICK r \in 0..(BufSize - 1) : r = start + i - 1
          BY <1>2, <4>5
        <5>5. j = (c - BufSize) + r
          BY <1>2, <3>7, <4>1, <5>1
        <5>2. j = p * BufSize + r
          BY <3>9, <5>5
        <5>3. j % BufSize = r
          BY <1>2, <5>2, RemainderIs
        <5>4. f[i] = rb.data[r]
          BY <4>5, <5>1
        <5> QED
          BY <4>3, <5>3, <5>4
      <4>6. CASE ~ (i <= BufSize - start)
        <5>1. PICK r \in 0..(BufSize - 1) : r = i - (BufSize - start) - 1
          BY <1>2, <3>1, <4>6
        <5>5. j = c + r
          BY <1>2, <3>1, <3>7, <4>1, <5>1
        <5>2. j = q * BufSize + r
          BY <3>4, <5>5
        <5>3. j % BufSize = r
          BY <1>2, <5>2, RemainderIs
        <5>4. f[i] = rb.data[r]
          BY <4>6, <5>1
        <5> QED
          BY <4>3, <5>3, <5>4
      <4> QED
        BY <4>5, <4>6
    <3>6. out = [i \in 1..n |-> f[i]]
      BY <3>3
    <3> HIDE DEF f
    <3> QED
      BY <3>5, <3>6
  <2> QED
    BY <1>2, <2>2, <2>3
<1>7. \A i \in 1..n : m - n + i \in 1..m
  BY <1>4
<1>8. out \in Seq(Lines) /\ Len(out) = n /\ \A i \in 1..n : out[i] = all[m - n + i]
  <2>1. PICK f : out = [i \in 1..n |-> f[i]] /\ \A i \in 1..n : f[i] = all[m - n + i]
    BY <1>6
  <2>2. \A i \in 1..n : all[m - n + i] \in Lines
    BY <1>1, <1>7
  <2>4. \A i \in 1..n : f[i] \in Lines
    BY <2>1, <2>2
  <2>5. PICK g : g = [i \in 1..n |-> f[i]]
    OBVIOUS
  <2>3. g \in [1..n -> Lines] /\ \A i \in 1..n : g[i] = f[i]
    BY <2>4, <2>5
  <2>6. g \in Seq(Lines) /\ Len(g) = n
    BY <2>3, FunctionIsList
  <2> QED
    BY <2>1, <2>3, <2>5, <2>6
<1>9. PICK u : u = SubSeq(all, m - n + 1, m)
  OBVIOUS
<1>10. u \in Seq(Lines) /\ Len(u) = n /\ \A i \in 1..n : u[i] = all[m - n + i]
  <2>1. m - n + 1 \in 1..(m + 1) /\ m - (m - n + 1) + 1 = n
    BY <1>4
  <2>2. \A i \in 1..n : i + (m - n + 1) - 1 = m - n + i
    BY <1>4
  <2>3. u \in Seq(Lines) /\ Len(u) = n
    BY <1>1, <1>4, <1>9, <2>1
  <2>4. \A i \in 1..n : u[i] = all[m - n + i]
    BY <1>1, <1>4, <1>9, <2>1, <2>2
  <2> QED
    BY <2>3, <2>4
<1>11. out = u
  BY <1>8, <1>10, SeqEqual
<1> QED
  BY <1>1, <1>3, <1>5, <1>8, <1>9, <1>11

-----------------------------------------------------------------------------
(* Shell sessions: one session and the lines that its buffer was given *)

\* How many of the first i lines are of the stream.
Count(all, s, i) == Cardinality({j \in 1..i : all[j][1] = s})

LEMMA CountIsNat ==
    ASSUME NEW all, NEW s, NEW i \in Nat PROVE Count(all, s, i) \in Nat
<1>1. PICK D : D = {j \in 1..i : all[j][1] = s}
  OBVIOUS
<1>2. IsFiniteSet(D)
  <2>1. IsFiniteSet(1..i)
    BY FS_Interval
  <2>2. D \subseteq 1..i
    BY <1>1
  <2> QED
    BY <2>1, <2>2, FS_Subset
<1> QED
  BY <1>1, <1>2, FS_CardinalityType DEF Count

LEMMA CountNone ==
    ASSUME NEW all, NEW s PROVE Count(all, s, 0) = 0
<1>1. PICK D : D = {j \in 1..0 : all[j][1] = s}
  OBVIOUS
<1>2. 1..0 = {}
  OBVIOUS
<1>3. D = {}
  BY <1>1, <1>2
<1> QED
  BY <1>1, <1>3, FS_EmptySet DEF Count

\* A line more is one more of its own stream.
LEMMA CountGrows ==
    ASSUME NEW all \in Seq(Lines), NEW line \in Lines, NEW s
    PROVE  /\ \A i \in 1..Len(all) : Count(Append(all, line), s, i) = Count(all, s, i)
           /\ line[1] = s => Count(Append(all, line), s, Len(all) + 1) = Count(all, s, Len(all)) + 1
           /\ line[1] # s => Count(Append(all, line), s, Len(all) + 1) = Count(all, s, Len(all))
<1>1. PICK m \in Nat : m = Len(all)
  OBVIOUS
<1>2. PICK t : t = Append(all, line)
  OBVIOUS
<1>3. t[m + 1] = line /\ \A j \in 1..m : t[j] = all[j]
  BY <1>1, <1>2
<1>4. ASSUME NEW i \in 1..m PROVE Count(t, s, i) = Count(all, s, i)
  <2>1. {j \in 1..i : t[j][1] = s} = {j \in 1..i : all[j][1] = s}
    BY <1>3
  <2> QED
    BY <2>1 DEF Count
<1>5. PICK D : D = {j \in 1..m : all[j][1] = s}
  OBVIOUS
<1>6. IsFiniteSet(D) /\ m + 1 \notin D
  <2>1. IsFiniteSet(1..m)
    BY FS_Interval
  <2>2. D \subseteq 1..m
    BY <1>5
  <2>3. m + 1 \notin 1..m
    OBVIOUS
  <2> QED
    BY <2>1, <2>2, <2>3, FS_Subset
<1>7. ASSUME line[1] = s PROVE Count(t, s, m + 1) = Count(all, s, m) + 1
  <2>1. {j \in 1..(m + 1) : t[j][1] = s} = D \cup {m + 1}
    BY <1>3, <1>5, <1>7
  <2>2. Cardinality(D \cup {m + 1}) = Cardinality(D) + 1
    BY <1>6, FS_AddElement
  <2> QED
    BY <1>5, <2>1, <2>2 DEF Count
<1>8. ASSUME line[1] # s PROVE Count(t, s, m + 1) = Count(all, s, m)
  <2>1. {j \in 1..(m + 1) : t[j][1] = s} = D
    BY <1>3, <1>5, <1>8
  <2> QED
    BY <1>5, <2>1 DEF Count
<1>9. \A i \in 1..m : Count(t, s, i) = Count(all, s, i)
  BY <1>4
<1>10. /\ \A i \in 1..m : Count(Append(all, line), s, i) = Count(all, s, i)
       /\ line[1] = s => Count(Append(all, line), s, m + 1) = Count(all, s, m) + 1
       /\ line[1] # s => Count(Append(all, line), s, m + 1) = Count(all, s, m)
  BY <1>2, <1>7, <1>8, <1>9
<1> QED
  BY <1>1, <1>10

\* Every line carries the number that it has in its stream.
Numbered(all) == \A i \in DOMAIN all : all[i][2] = Count(all, all[i][1], i)

LEMMA NumberedGrows ==
    ASSUME NEW all \in Seq(Lines), Numbered(all), NEW line \in Lines,
           line[2] = Count(all, line[1], Len(all)) + 1
    PROVE  Numbered(Append(all, line))
<1>1. PICK m \in Nat : m = Len(all) /\ DOMAIN all = 1..m
  OBVIOUS
<1>2. PICK t : t = Append(all, line)
  OBVIOUS
<1>3. DOMAIN t = 1..(m + 1) /\ t[m + 1] = line /\ \A j \in 1..m : t[j] = all[j]
  BY <1>1, <1>2
<1>4. ASSUME NEW i \in 1..(m + 1) PROVE t[i][2] = Count(t, t[i][1], i)
  <2>1. CASE i = m + 1
    <3>1. Count(t, line[1], m + 1) = Count(all, line[1], m) + 1
      BY <1>1, <1>2, CountGrows
    <3> QED
      BY <1>1, <1>3, <2>1, <3>1
  <2>2. CASE i \in 1..m
    <3>1. PICK s : s = all[i][1]
      OBVIOUS
    <3>2. Count(t, s, i) = Count(all, s, i)
      BY <1>1, <1>2, <2>2, CountGrows
    <3>3. all[i][2] = Count(all, s, i)
      BY <1>1, <2>2, <3>1 DEF Numbered
    <3> QED
      BY <1>3, <2>2, <3>1, <3>2, <3>3
  <2> QED
    BY <2>1, <2>2
<1> QED
  BY <1>2, <1>3, <1>4 DEF Numbered

\* The lines in a pipe continue those that were read from it.
Continues(pipe, s, k) == \A i \in 1..Len(pipe) : pipe[i] = <<s, k + i>>

LEMMA EmptyContinues == ASSUME NEW s, NEW k PROVE Continues(<<>>, s, k)
<1>1. 1..Len(<<>>) = {}
  OBVIOUS
<1> QED
  BY <1>1 DEF Continues

LEMMA AppendContinues ==
    ASSUME NEW pipe \in Seq(Lines), NEW s, NEW k \in Nat, Continues(pipe, s, k),
           NEW line \in Lines, line = <<s, k + Len(pipe) + 1>>
    PROVE  Append(pipe, line) \in Seq(Lines) /\ Len(Append(pipe, line)) = Len(pipe) + 1
           /\ Continues(Append(pipe, line), s, k)
<1>1. PICK m \in Nat : m = Len(pipe)
  OBVIOUS
<1>2. PICK t : t = Append(pipe, line)
  OBVIOUS
<1>3. t \in Seq(Lines) /\ Len(t) = m + 1 /\ t[m + 1] = line /\ \A i \in 1..m : t[i] = pipe[i]
  BY <1>1, <1>2
<1>4. ASSUME NEW i \in 1..(m + 1) PROVE t[i] = <<s, k + i>>
  <2>1. CASE i = m + 1
    <3>1. k + m + 1 = k + i
      BY <2>1
    <3> QED
      BY <1>1, <1>3, <2>1, <3>1
  <2>2. CASE i \in 1..m
    BY <1>1, <1>3, <2>2 DEF Continues
  <2> QED
    BY <2>1, <2>2
<1> QED
  BY <1>1, <1>2, <1>3, <1>4 DEF Continues

LEMMA TailContinues ==
    ASSUME NEW pipe \in Seq(Lines), NEW s, NEW k \in Nat, Continues(pipe, s, k), pipe # <<>>
    PROVE  /\ Tail(pipe) \in Seq(Lines) /\ Len(Tail(pipe)) = Len(pipe) - 1 /\ Len(pipe) > 0
           /\ Continues(Tail(pipe), s, k + 1)
           /\ Head(pipe) \in Lines /\ Head(pipe) = <<s, k + 1>>
<1>1. PICK m \in Nat : m = Len(pipe) /\ m > 0
  OBVIOUS
<1>2. PICK t : t = Tail(pipe)
  OBVIOUS
<1>3. t \in Seq(Lines) /\ Len(t) = m - 1 /\ \A i \in 1..(m - 1) : t[i] = pipe[i + 1]
  BY <1>1, <1>2
<1>4. ASSUME NEW i \in 1..(m - 1) PROVE t[i] = <<s, (k + 1) + i>>
  <2>1. i + 1 \in 1..m /\ k + (i + 1) = (k + 1) + i
    BY <1>1
  <2>2. pipe[i + 1] = <<s, k + (i + 1)>>
    BY <1>1, <2>1 DEF Continues
  <2> QED
    BY <1>3, <2>1, <2>2
<1>5. Head(pipe) = pipe[1] /\ 1 \in 1..m
  BY <1>1
<1>6. pipe[1] \in Lines /\ pipe[1] = <<s, k + 1>>
  BY <1>1, <1>5 DEF Continues
<1> QED
  BY <1>1, <1>2, <1>3, <1>4, <1>5, <1>6 DEF Continues

\* A stream of a session: what was printed to it is in the buffer's history or in the
\* pipe, as long as somebody reads.
Carried(x, all, s) ==
    /\ x.reading[s] => x.printed[s] = Count(all, s, Len(all)) + Len(x.pipe[s])
    /\ Continues(x.pipe[s], s, Count(all, s, Len(all)))

\* What holds of a session and the lines that its buffer was given.
SessionFine(x, all) ==
    /\ x \in SessionObjects
    /\ all \in Seq(Lines)
    /\ Ringed(x.outputBuf, all)
    /\ Numbered(all)
    /\ \A s \in Streams : Carried(x, all, s)
    /\ x.printed["stdout"] + x.printed["stderr"] <= x.commands

-----------------------------------------------------------------------------
(* Shell sessions: what is done to one *)

\* The changes that the actions make.
Commanded(x) == [x EXCEPT !.commands = @ + 1]
Exited(x) == [x EXCEPT !.running = FALSE]
Emitted(x, s) ==
    [x EXCEPT !.printed[s] = @ + 1, !.pipe[s] = Append(@, <<s, x.printed[s] + 1>>)]
Drained(x, s) == [x EXCEPT !.pipe[s] = Tail(@), !.outputBuf = RingWrite(@, Head(x.pipe[s]))]
ScanEnded(x, s) == [x EXCEPT !.reading[s] = FALSE, !.pipe[s] = <<>>]
Waited(x) == [x EXCEPT !.done = TRUE, !.reading = [s \in Streams |-> FALSE],
                       !.pipe = [s \in Streams |-> <<>>]]

\* What SessionFine reads of a session.
SameStreams(x, y) ==
    y.printed = x.printed /\ y.pipe = x.pipe /\ y.reading = x.reading /\ y.outputBuf = x.outputBuf

LEMMA SameIsFine ==
    ASSUME NEW x, NEW all, SessionFine(x, all), NEW y \in SessionObjects, SameStreams(x, y),
           y.commands >= x.commands
    PROVE  SessionFine(y, all)
<1>1. \A s \in Streams : Carried(y, all, s)
  BY DEF SessionFine, Carried, SameStreams
<1>2. x.printed["stdout"] \in Nat /\ x.printed["stderr"] \in Nat /\ x.commands \in Nat /\ y.commands \in Nat
  BY DEF SessionFine, SessionObjects, Streams
<1>3. y.printed["stdout"] + y.printed["stderr"] <= y.commands
  BY <1>2 DEF SessionFine, SameStreams
<1>4. Ringed(y.outputBuf, all)
  BY DEF SessionFine, SameStreams
<1> QED
  BY <1>1, <1>3, <1>4 DEF SessionFine

LEMMA CommandedIsFine ==
    ASSUME NEW x, NEW all, SessionFine(x, all)
    PROVE  SessionFine(Commanded(x), all) /\ Commanded(x).commands = x.commands + 1
<1>0. x \in SessionObjects
  BY DEF SessionFine
<1>1. PICK c \in Nat : c = x.commands + 1 /\ c >= x.commands
  BY <1>0 DEF SessionObjects
<1>2. PICK y : y = [x EXCEPT !.commands = c]
  OBVIOUS
<1>3. y \in SessionObjects /\ SameStreams(x, y) /\ y.commands = c
  BY <1>0, <1>2 DEF SessionObjects, SameStreams
<1>4. Commanded(x) = y
  BY <1>1, <1>2 DEF Commanded
<1> QED
  BY <1>1, <1>3, <1>4, SameIsFine

LEMMA ClosedIsFine ==
    ASSUME NEW x, NEW all, SessionFine(x, all)
    PROVE  SessionFine(Closed(x), all) /\ Closed(x).commands = x.commands
<1>0. x \in SessionObjects
  BY DEF SessionFine
<1>1. PICK y : y = [x EXCEPT !.cancelled = TRUE]
  OBVIOUS
<1>2. y \in SessionObjects /\ SameStreams(x, y) /\ y.commands = x.commands
  BY <1>0, <1>1 DEF SessionObjects, SameStreams
<1>3. y.commands >= x.commands
  BY <1>0, <1>2 DEF SessionObjects
<1> QED
  BY <1>1, <1>2, <1>3, SameIsFine DEF Closed

LEMMA ExitedIsFine ==
    ASSUME NEW x, NEW all, SessionFine(x, all)
    PROVE  SessionFine(Exited(x), all) /\ Exited(x).commands = x.commands
<1>0. x \in SessionObjects
  BY DEF SessionFine
<1>1. PICK y : y = [x EXCEPT !.running = FALSE]
  OBVIOUS
<1>2. y \in SessionObjects /\ SameStreams(x, y) /\ y.commands = x.commands
  BY <1>0, <1>1 DEF SessionObjects, SameStreams
<1>3. y.commands >= x.commands
  BY <1>0, <1>2 DEF SessionObjects
<1> QED
  BY <1>1, <1>2, <1>3, SameIsFine DEF Exited

\* A line is printed and waits in the pipe.
LEMMA EmittedIsFine ==
    ASSUME NEW x, NEW all, SessionFine(x, all), NEW s \in Streams, x.reading[s],
           x.printed["stdout"] + x.printed["stderr"] < x.commands, x.commands <= MaxWork
    PROVE  SessionFine(Emitted(x, s), all) /\ Emitted(x, s).commands = x.commands
<1>0. x \in SessionObjects /\ all \in Seq(Lines)
  BY DEF SessionFine
<1>1. x.printed \in [Streams -> Nat] /\ x.pipe \in [Streams -> Seq(Lines)] /\ x.commands \in Nat
  BY <1>0 DEF SessionObjects
<1>2. PICK n \in Nat : n = x.printed[s] + 1
  BY <1>1
<1>3. n \in 1..MaxWork
  BY <1>1, <1>2, SessionAssumption DEF Streams
<1>4. PICK line \in Lines : line = <<s, n>>
  BY <1>3 DEF Lines
<1>5. PICK k \in Nat : k = Count(all, s, Len(all))
  BY <1>0, CountIsNat
<1>6. PICK p \in Seq(Lines) : p = x.pipe[s]
  BY <1>1
<1>7. x.printed[s] = k + Len(p) /\ Continues(p, s, k)
  BY <1>5, <1>6 DEF SessionFine, Carried
<1>8. n = k + Len(p) + 1
  BY <1>2, <1>6, <1>7
<1>9. PICK q : q = Append(p, line)
  OBVIOUS
<1>10. q \in Seq(Lines) /\ Len(q) = Len(p) + 1 /\ Continues(q, s, k)
  <2>1. line = <<s, k + Len(p) + 1>>
    BY <1>4, <1>8
  <2>2. Continues(p, s, k)
    BY <1>7
  <2> QED
    BY <1>9, <2>1, <2>2, AppendContinues
<1>11. PICK y : y = Emitted(x, s)
  OBVIOUS
<1>12. y = [x EXCEPT !.printed[s] = n, !.pipe[s] = q]
  BY <1>0, <1>2, <1>4, <1>6, <1>9, <1>11 DEF Emitted, SessionObjects
<1>13. /\ y.printed = [x.printed EXCEPT ![s] = n] /\ y.pipe = [x.pipe EXCEPT ![s] = q]
       /\ y.reading = x.reading /\ y.outputBuf = x.outputBuf /\ y.commands = x.commands
  BY <1>0, <1>12 DEF SessionObjects
<1>14. y \in SessionObjects
  <2>1. PICK f \in [Streams -> Nat] : f = [x.printed EXCEPT ![s] = n]
    BY <1>1
  <2>2. PICK g \in [Streams -> Seq(Lines)] : g = [x.pipe EXCEPT ![s] = q]
    BY <1>1, <1>10
  <2>3. y = [x EXCEPT !.printed = f, !.pipe = g]
    BY <1>12, <2>1, <2>2
  <2> QED
    BY <1>0, <2>3 DEF SessionObjects
<1>15. ASSUME NEW r \in Streams PROVE Carried(y, all, r)
  <2>1. CASE r = s
    <3>1. y.printed[s] = n /\ y.pipe[s] = q
      BY <1>1, <1>13
    <3>2. n = k + Len(q)
      <4>1. PICK a \in Nat : a = Len(p)
        OBVIOUS
      <4>2. n = k + a + 1 /\ Len(q) = a + 1
        BY <1>8, <1>10, <4>1
      <4>3. k + a + 1 = k + (a + 1)
        BY <4>1
      <4> QED
        BY <4>2, <4>3
    <3> QED
      BY <1>5, <1>10, <2>1, <3>1, <3>2 DEF Carried
  <2>2. CASE r # s
    <3>1. y.printed[r] = x.printed[r] /\ y.pipe[r] = x.pipe[r]
      BY <1>1, <1>13, <2>2
    <3> QED
      BY <1>13, <3>1 DEF SessionFine, Carried
  <2> QED
    BY <2>1, <2>2
<1>16. y.printed["stdout"] + y.printed["stderr"] <= y.commands
  <2>1. CASE s = "stdout"
    <3>1. y.printed["stdout"] = n /\ y.printed["stderr"] = x.printed["stderr"]
      BY <1>1, <1>13, <2>1 DEF Streams
    <3> QED
      BY <1>1, <1>2, <1>13, <2>1, <3>1 DEF Streams
  <2>2. CASE s = "stderr"
    <3>1. y.printed["stderr"] = n /\ y.printed["stdout"] = x.printed["stdout"]
      BY <1>1, <1>13, <2>2 DEF Streams
    <3> QED
      BY <1>1, <1>2, <1>13, <2>2, <3>1 DEF Streams
  <2> QED
    BY <2>1, <2>2 DEF Streams
<1>17. Ringed(y.outputBuf, all) /\ Numbered(all)
  BY <1>13 DEF SessionFine
<1> QED
  BY <1>0, <1>11, <1>13, <1>14, <1>15, <1>16, <1>17 DEF SessionFine

\* A line moves from the pipe into the buffer.
LEMMA DrainedIsFine ==
    ASSUME NEW x, NEW all, SessionFine(x, all), NEW s \in Streams, x.pipe[s] # <<>>
    PROVE  /\ Head(x.pipe[s]) \in Lines
           /\ SessionFine(Drained(x, s), Append(all, Head(x.pipe[s])))
           /\ Drained(x, s).commands = x.commands
<1>0. x \in SessionObjects /\ all \in Seq(Lines)
  BY DEF SessionFine
<1>1. /\ x.printed \in [Streams -> Nat] /\ x.pipe \in [Streams -> Seq(Lines)] /\ x.commands \in Nat
      /\ x.outputBuf \in RingBuffers
  BY <1>0 DEF SessionObjects
<1>2. PICK k \in Nat : k = Count(all, s, Len(all))
  BY <1>0, CountIsNat
<1>3. PICK p \in Seq(Lines) : p = x.pipe[s]
  BY <1>1
<1>4. Continues(p, s, k) /\ (x.reading[s] => x.printed[s] = k + Len(p))
  BY <1>2, <1>3 DEF SessionFine, Carried
<1>5. PICK q, line : q = Tail(p) /\ line = Head(p)
  OBVIOUS
<1>6. /\ q \in Seq(Lines) /\ Len(q) = Len(p) - 1 /\ Len(p) > 0 /\ Continues(q, s, k + 1)
      /\ line \in Lines /\ line = <<s, k + 1>>
  BY <1>3, <1>4, <1>5, TailContinues
<1>7. line[1] = s /\ line[2] = k + 1
  BY <1>6
<1>8. PICK t : t = Append(all, line)
  OBVIOUS
<1>9. t \in Seq(Lines) /\ Len(t) = Len(all) + 1
  BY <1>0, <1>6, <1>8
<1>10. Numbered(t)
  BY <1>0, <1>2, <1>6, <1>7, <1>8, NumberedGrows DEF SessionFine
<1>11. PICK b : b = RingWrite(x.outputBuf, line)
  OBVIOUS
<1>12. Ringed(b, t)
  <2>1. Ringed(x.outputBuf, all)
    BY DEF SessionFine
  <2> QED
    BY <1>0, <1>6, <1>8, <1>11, <2>1, RingGrows
<1>13. b \in RingBuffers
  BY <1>12 DEF Ringed
<1>14. PICK y : y = Drained(x, s)
  OBVIOUS
<1>15. y = [x EXCEPT !.pipe[s] = q, !.outputBuf = b]
  BY <1>0, <1>3, <1>5, <1>11, <1>14 DEF Drained, SessionObjects
<1>16. /\ y.printed = x.printed /\ y.pipe = [x.pipe EXCEPT ![s] = q]
       /\ y.reading = x.reading /\ y.outputBuf = b /\ y.commands = x.commands
  BY <1>0, <1>15 DEF SessionObjects
<1>17. y \in SessionObjects
  <2>1. [x.pipe EXCEPT ![s] = q] \in [Streams -> Seq(Lines)]
    BY <1>1, <1>6
  <2> QED
    BY <1>0, <1>13, <1>15, <2>1 DEF SessionObjects
<1>18. ASSUME NEW r \in Streams PROVE Carried(y, t, r)
  <2>1. CASE r = s
    <3>1. y.pipe[s] = q
      BY <1>1, <1>16
    <3>2. Count(t, s, Len(t)) = k + 1
      <4>1. line \in Lines /\ line[1] = s
        BY <1>6, <1>7
      <4>2. Count(t, s, Len(all) + 1) = Count(all, s, Len(all)) + 1
        BY <1>0, <1>8, <4>1, CountGrows
      <4> QED
        BY <1>2, <1>9, <4>2
    <3>3. x.reading[s] => x.printed[s] = (k + 1) + Len(q)
      <4>1. PICK a \in Nat, d \in Int : a = Len(p) /\ d = Len(q) /\ d = a - 1
        BY <1>6
      <4>2. k + a = (k + 1) + d
        BY <4>1
      <4> QED
        BY <1>4, <4>1, <4>2
    <3> QED
      BY <1>6, <1>16, <2>1, <3>1, <3>2, <3>3 DEF Carried
  <2>2. CASE r # s
    <3>1. y.pipe[r] = x.pipe[r]
      BY <1>1, <1>16, <2>2
    <3>2. Count(t, r, Len(t)) = Count(all, r, Len(all))
      <4>1. line \in Lines /\ line[1] # r
        BY <1>6, <1>7, <2>2
      <4>2. Count(t, r, Len(all) + 1) = Count(all, r, Len(all))
        BY <1>0, <1>8, <4>1, CountGrows
      <4> QED
        BY <1>9, <4>2
    <3> QED
      BY <1>16, <3>1, <3>2 DEF SessionFine, Carried
  <2> QED
    BY <2>1, <2>2
<1>19. y.printed["stdout"] + y.printed["stderr"] <= y.commands
  BY <1>16 DEF SessionFine
<1>20. SessionFine(y, t)
  BY <1>9, <1>10, <1>12, <1>16, <1>17, <1>18, <1>19 DEF SessionFine
<1> QED
  BY <1>3, <1>5, <1>6, <1>8, <1>14, <1>16, <1>20

\* Nobody reads the stream any more.
LEMMA ScanEndedIsFine ==
    ASSUME NEW x, NEW all, SessionFine(x, all), NEW s \in Streams
    PROVE  SessionFine(ScanEnded(x, s), all) /\ ScanEnded(x, s).commands = x.commands
<1>0. x \in SessionObjects
  BY DEF SessionFine
<1>1. x.reading \in [Streams -> BOOLEAN] /\ x.pipe \in [Streams -> Seq(Lines)]
  BY <1>0 DEF SessionObjects
<1>2. PICK y : y = ScanEnded(x, s)
  OBVIOUS
<1>3. y = [x EXCEPT !.reading[s] = FALSE, !.pipe[s] = <<>>]
  BY <1>2 DEF ScanEnded
<1>4. /\ y.reading = [x.reading EXCEPT ![s] = FALSE] /\ y.pipe = [x.pipe EXCEPT ![s] = <<>>]
      /\ y.printed = x.printed /\ y.outputBuf = x.outputBuf /\ y.commands = x.commands
  BY <1>0, <1>3 DEF SessionObjects
<1>5. y \in SessionObjects
  <2>1. [x.reading EXCEPT ![s] = FALSE] \in [Streams -> BOOLEAN]
    BY <1>1
  <2>2. [x.pipe EXCEPT ![s] = <<>>] \in [Streams -> Seq(Lines)]
    BY <1>1
  <2> QED
    BY <1>0, <1>3, <2>1, <2>2 DEF SessionObjects
<1>6. ASSUME NEW r \in Streams PROVE Carried(y, all, r)
  <2>1. CASE r = s
    <3>1. ~ y.reading[s] /\ y.pipe[s] = <<>>
      BY <1>1, <1>4
    <3> QED
      BY <2>1, <3>1, EmptyContinues DEF Carried
  <2>2. CASE r # s
    <3>1. y.reading[r] = x.reading[r] /\ y.pipe[r] = x.pipe[r]
      BY <1>1, <1>4, <2>2
    <3> QED
      BY <1>4, <3>1 DEF SessionFine, Carried
  <2> QED
    BY <2>1, <2>2
<1>7. y.printed["stdout"] + y.printed["stderr"] <= y.commands
  BY <1>4 DEF SessionFine
<1>8. Ringed(y.outputBuf, all)
  BY <1>4 DEF SessionFine
<1>9. SessionFine(y, all)
  BY <1>5, <1>6, <1>7, <1>8 DEF SessionFine
<1> QED
  BY <1>2, <1>4, <1>9

LEMMA WaitedIsFine ==
    ASSUME NEW x, NEW all, SessionFine(x, all)
    PROVE  SessionFine(Waited(x), all) /\ Waited(x).commands = x.commands
<1>0. x \in SessionObjects
  BY DEF SessionFine
<1>1. PICK y : y = Waited(x)
  OBVIOUS
<1>2. PICK f, e : f = [s \in Streams |-> FALSE] /\ e = [s \in Streams |-> <<>>]
  OBVIOUS
<1>3. y = [x EXCEPT !.done = TRUE, !.reading = f, !.pipe = e]
  BY <1>1, <1>2 DEF Waited
<1>4. f \in [Streams -> BOOLEAN] /\ e \in [Streams -> Seq(Lines)]
  BY <1>2
<1>5. y.reading = f /\ y.pipe = e /\ y.printed = x.printed /\ y.outputBuf = x.outputBuf /\ y.commands = x.commands
  BY <1>0, <1>3 DEF SessionObjects
<1>6. y \in SessionObjects
  BY <1>0, <1>3, <1>4 DEF SessionObjects
<1>7. ASSUME NEW r \in Streams PROVE Carried(y, all, r)
  <2>1. ~ y.reading[r] /\ y.pipe[r] = <<>>
    BY <1>2, <1>5
  <2> QED
    BY <2>1, EmptyContinues DEF Carried
<1>8. y.printed["stdout"] + y.printed["stderr"] <= y.commands
  BY <1>5 DEF SessionFine
<1>9. Ringed(y.outputBuf, all)
  BY <1>5 DEF SessionFine
<1>10. SessionFine(y, all)
  BY <1>6, <1>7, <1>8, <1>9 DEF SessionFine
<1> QED
  BY <1>1, <1>5, <1>10

LEMMA NoLines == <<>> \in Seq(Lines) /\ Len(<<>>) = 0 /\ DOMAIN <<>> = {}
  OBVIOUS

LEMMA NewIsFine == SessionFine(NewSession, <<>>) /\ NewSession.commands = 0
<1>1. PICK b : b = NewRingBuffer
  OBVIOUS
<1>2. Ringed(b, <<>>) /\ b \in RingBuffers
  BY <1>1, RingStarts DEF Ringed
<1>3. PICK f, e, z : f = [s \in Streams |-> TRUE] /\ e = [s \in Streams |-> <<>>] /\ z = [s \in Streams |-> 0]
  OBVIOUS
<1>4. PICK y : y = [running |-> TRUE, cancelled |-> FALSE, commands |-> 0, printed |-> z, pipe |-> e,
                    reading |-> f, done |-> FALSE, outputBuf |-> b]
  OBVIOUS
<1>5. y = NewSession
  BY <1>1, <1>3, <1>4 DEF NewSession
<1>6. f \in [Streams -> BOOLEAN] /\ e \in [Streams -> Seq(Lines)] /\ z \in [Streams -> Nat]
  BY <1>3
<1>7. y \in SessionObjects
  BY <1>2, <1>4, <1>6 DEF SessionObjects
<1>8. y.commands = 0 /\ y.printed = z /\ y.pipe = e /\ y.outputBuf = b
  BY <1>4
<1>9. ASSUME NEW r \in Streams PROVE Carried(y, <<>>, r)
  <2>1. y.pipe[r] = <<>> /\ y.printed[r] = 0
    BY <1>3, <1>8
  <2>2. PICK none \in Seq(Lines) : none = <<>> /\ Len(none) = 0
    BY NoLines
  <2>3. Count(none, r, 0) = 0
    BY CountNone
  <2>4. y.printed[r] = Count(none, r, Len(none)) + Len(y.pipe[r])
    BY <2>1, <2>2, <2>3
  <2> QED
    BY <2>1, <2>2, <2>4, EmptyContinues DEF Carried
<1>10. y.printed["stdout"] + y.printed["stderr"] <= y.commands
  <2>1. z["stdout"] = 0 /\ z["stderr"] = 0
    BY <1>3 DEF Streams
  <2> QED
    BY <1>8, <2>1
<1>11. Numbered(<<>>)
  BY NoLines DEF Numbered
<1>12. SessionFine(y, <<>>)
  BY <1>2, <1>7, <1>8, <1>9, <1>10, <1>11, NoLines DEF SessionFine
<1> QED
  BY <1>5, <1>8, <1>12

-----------------------------------------------------------------------------
(* Shell sessions: the shells and commands, as a sum over the sessions *)

\* Work, of any shells.
Commands(ss) == [n \in DOMAIN ss |-> ss[n].commands]
WorkOf(ss) == 2 * Len(ss) + Sum(Commands(ss), DOMAIN ss)

LEMMA CommandsFold ==
  ASSUME NEW ss, NEW S, S = DOMAIN ss
  PROVE  (CHOOSE g : g = [s \in SUBSET S |->
             IF s = {} THEN 0 ELSE ss[Pick(s)].commands + g[s \ {Pick(s)}]])[S]
            = Sum(Commands(ss), S)
<1>1. \A s \in SUBSET S : s # {} => Commands(ss)[Pick(s)] = ss[Pick(s)].commands
  BY PickIn DEF Commands
<1>2. ASSUME NEW g
      PROVE  IsSum(g, Commands(ss), S) <=> g = [s \in SUBSET S |->
                IF s = {} THEN 0 ELSE ss[Pick(s)].commands + g[s \ {Pick(s)}]]
  BY <1>1 DEF IsSum
<1>3. (CHOOSE g : IsSum(g, Commands(ss), S)) = (CHOOSE g : g = [s \in SUBSET S |->
         IF s = {} THEN 0 ELSE ss[Pick(s)].commands + g[s \ {Pick(s)}]])
  BY <1>2
<1> QED BY <1>3, SumIsFold

LEMMA WorkIs == Work = WorkOf(shells) /\ Work' = WorkOf(shells')
<1>1. Work = WorkOf(shells)
  <2>1. MapThenSumSet(LAMBDA n : shells[n].commands, Started) = Sum(Commands(shells), DOMAIN shells)
    BY CommandsFold DEF Started, MapThenSumSet, MapThenFoldSet, Pick
  <2> QED
    BY <2>1 DEF Work, WorkOf
<1>2. Work' = WorkOf(shells')
  <2>1. PICK S : S = DOMAIN shells'
    OBVIOUS
  <2> QED
    BY <2>1, CommandsFold DEF Work, WorkOf, Started, MapThenSumSet, MapThenFoldSet, Pick
<1> QED
  BY <1>1, <1>2

LEMMA CommandsAre ==
    ASSUME NEW ss \in Seq(SessionObjects)
    PROVE  /\ IsFiniteSet(DOMAIN ss)
           /\ \A n \in DOMAIN ss : Commands(ss)[n] = ss[n].commands /\ ss[n].commands \in Nat
           /\ Sum(Commands(ss), DOMAIN ss) \in Nat /\ WorkOf(ss) \in Nat /\ Len(ss) \in Nat
<1>1. DOMAIN ss = 1..Len(ss) /\ Len(ss) \in Nat
  OBVIOUS
<1>2. IsFiniteSet(DOMAIN ss)
  BY <1>1, FS_Interval
<1>3. \A n \in DOMAIN ss : Commands(ss)[n] = ss[n].commands
  BY DEF Commands
<1>4. \A n \in DOMAIN ss : ss[n].commands \in Nat
  <2>1. \A n \in DOMAIN ss : ss[n] \in SessionObjects
    OBVIOUS
  <2> QED
    BY <2>1 DEF SessionObjects
<1>5. Sum(Commands(ss), DOMAIN ss) \in Nat
  BY <1>2, <1>3, <1>4, SumIsNat
<1> QED
  BY <1>1, <1>2, <1>3, <1>4, <1>5 DEF WorkOf

\* A shell is never given more commands than there is work.
LEMMA CommandsBounded ==
    ASSUME NEW ss \in Seq(SessionObjects), NEW n \in DOMAIN ss
    PROVE  ss[n].commands <= WorkOf(ss)
<1>1. PICK v, S : v = Commands(ss) /\ S = DOMAIN ss
  OBVIOUS
<1>2. IsFiniteSet(S) /\ \A k \in S : v[k] \in Nat
  BY <1>1, CommandsAre
<1>3. Sum(v, S) = v[n] + Sum(v, S \ {n})
  BY <1>1, <1>2, SumRemove
<1>4. Sum(v, S \ {n}) \in Nat
  <2>1. IsFiniteSet(S \ {n})
    BY <1>2, FS_Subset
  <2> QED
    BY <1>2, <2>1, SumIsNat
<1>5. v[n] = ss[n].commands /\ v[n] \in Nat
  BY <1>1, <1>2, CommandsAre
<1>6. WorkOf(ss) = 2 * Len(ss) + Sum(v, S) /\ Len(ss) \in Nat
  BY <1>1, CommandsAre DEF WorkOf
<1> QED
  BY <1>3, <1>4, <1>5, <1>6

LEMMA WorkSame ==
    ASSUME NEW ss \in Seq(SessionObjects), NEW tt \in Seq(SessionObjects), DOMAIN tt = DOMAIN ss,
           \A n \in DOMAIN ss : tt[n].commands = ss[n].commands
    PROVE  WorkOf(tt) = WorkOf(ss)
<1>1. PICK v, w, S : v = Commands(ss) /\ w = Commands(tt) /\ S = DOMAIN ss
  OBVIOUS
<1>2. IsFiniteSet(S) /\ \A n \in S : v[n] = w[n]
  BY <1>1, CommandsAre
<1>3. Sum(v, S) = Sum(w, S)
  BY <1>2, SumSame
<1>4. Len(tt) = Len(ss)
  OBVIOUS
<1> QED
  BY <1>1, <1>3, <1>4 DEF WorkOf

\* One command more.
LEMMA WorkMore ==
    ASSUME NEW ss \in Seq(SessionObjects), NEW tt \in Seq(SessionObjects), DOMAIN tt = DOMAIN ss,
           NEW m \in DOMAIN ss, tt[m].commands = ss[m].commands + 1,
           \A n \in DOMAIN ss : n # m => tt[n].commands = ss[n].commands
    PROVE  WorkOf(tt) = WorkOf(ss) + 1
<1>1. PICK v, w, S : v = Commands(ss) /\ w = Commands(tt) /\ S = DOMAIN ss
  OBVIOUS
<1>2. /\ IsFiniteSet(S) /\ m \in S
      /\ \A n \in S : v[n] \in Nat /\ w[n] \in Nat
      /\ w[m] = v[m] + 1 /\ \A n \in S : n # m => v[n] = w[n]
  <2>1. IsFiniteSet(S) /\ \A n \in S : v[n] = ss[n].commands /\ v[n] \in Nat
    BY <1>1, CommandsAre
  <2>2. \A n \in S : w[n] = tt[n].commands /\ w[n] \in Nat
    BY <1>1, CommandsAre
  <2> QED
    BY <1>1, <2>1, <2>2
<1>9. IsFiniteSet(S) /\ m \in S
  BY <1>2
<1>10. (\A y \in S : v[y] \in Int) /\ (\A y \in S : w[y] \in Int)
  BY <1>2
<1>3. Sum(v, S) = v[m] + Sum(v, S \ {m}) /\ Sum(w, S) = w[m] + Sum(w, S \ {m})
  <2>1. Sum(v, S) = v[m] + Sum(v, S \ {m})
    BY <1>9, <1>10, SumRemove
  <2>2. Sum(w, S) = w[m] + Sum(w, S \ {m})
    BY <1>9, <1>10, SumRemove
  <2> QED
    BY <2>1, <2>2
<1>4. IsFiniteSet(S \ {m})
  BY <1>2, FS_Subset
<1>5. Sum(v, S \ {m}) = Sum(w, S \ {m})
  BY <1>2, <1>4, SumSame
<1>6. Sum(v, S \ {m}) \in Nat
  BY <1>2, <1>4, SumIsNat
<1>7. Sum(w, S) = Sum(v, S) + 1
  BY <1>2, <1>3, <1>5, <1>6
<1>8. Len(tt) = Len(ss) /\ Sum(v, S) \in Nat /\ Len(ss) \in Nat
  BY <1>1, CommandsAre
<1> QED
  BY <1>1, <1>7, <1>8 DEF WorkOf

\* One shell more, without commands.
LEMMA WorkStarts ==
    ASSUME NEW ss \in Seq(SessionObjects), NEW x \in SessionObjects, x.commands = 0
    PROVE  WorkOf(Append(ss, x)) = WorkOf(ss) + 2
<1>1. PICK tt : tt = Append(ss, x)
  OBVIOUS
<1>2. PICK m \in Nat : m = Len(ss) /\ DOMAIN ss = 1..m
  OBVIOUS
<1>3. /\ tt \in Seq(SessionObjects) /\ Len(tt) = m + 1 /\ tt[m + 1] = x /\ DOMAIN tt = 1..(m + 1)
      /\ \A n \in 1..m : tt[n] = ss[n]
  BY <1>1, <1>2
<1>4. PICK v, w, S : v = Commands(ss) /\ w = Commands(tt) /\ S = 1..m
  OBVIOUS
<1>5. DOMAIN tt = S \cup {m + 1} /\ m + 1 \notin S
  BY <1>3, <1>4
<1>6. /\ IsFiniteSet(S) /\ \A n \in S \cup {m + 1} : w[n] \in Int
      /\ \A n \in S : v[n] = w[n]
      /\ w[m + 1] = 0
  <2>1. IsFiniteSet(S) /\ \A n \in S : v[n] = ss[n].commands
    BY <1>2, <1>4, CommandsAre
  <2>2. \A n \in S \cup {m + 1} : w[n] = tt[n].commands /\ w[n] \in Nat
    <3>1. \A n \in DOMAIN tt : Commands(tt)[n] = tt[n].commands /\ tt[n].commands \in Nat
      BY <1>3, CommandsAre
    <3> QED
      BY <1>4, <1>5, <3>1
  <2>3. \A n \in S : v[n] = w[n]
    BY <1>3, <1>4, <2>1, <2>2
  <2>4. w[m + 1] = 0
    BY <1>3, <2>2
  <2> QED
    BY <2>1, <2>2, <2>3, <2>4
<1>7. Sum(w, S \cup {m + 1}) = w[m + 1] + Sum(w, S)
  BY <1>5, <1>6, SumAdd
<1>8. Sum(v, S) = Sum(w, S)
  BY <1>6, SumSame
<1>9. Sum(v, S) \in Nat
  BY <1>2, <1>4, CommandsAre
<1>10. WorkOf(ss) = 2 * m + Sum(v, S)
  BY <1>2, <1>4 DEF WorkOf
<1>11. WorkOf(tt) = 2 * (m + 1) + Sum(w, S \cup {m + 1})
  BY <1>3, <1>4, <1>5 DEF WorkOf
<1>12. Sum(w, S \cup {m + 1}) = Sum(v, S)
  BY <1>6, <1>7, <1>8, <1>9
<1>13. PICK z \in Nat : z = Sum(v, S)
  BY <1>9
<1>14. 2 * (m + 1) + z = (2 * m + z) + 2
  OBVIOUS
<1> QED
  BY <1>1, <1>10, <1>11, <1>12, <1>13, <1>14

-----------------------------------------------------------------------------
(* Shell sessions: all of them *)

SetAt(f, n, v) == [f EXCEPT ![n] = v]

LEMMA SetAtIs ==
    ASSUME NEW S, NEW f \in Seq(S), NEW n \in DOMAIN f, NEW v \in S
    PROVE  /\ SetAt(f, n, v) \in Seq(S) /\ DOMAIN SetAt(f, n, v) = DOMAIN f
           /\ Len(SetAt(f, n, v)) = Len(f) /\ SetAt(f, n, v)[n] = v
           /\ \A k \in DOMAIN f : k # n => SetAt(f, n, v)[k] = f[k]
<1>1. PICK g : g = [f EXCEPT ![n] = v]
  OBVIOUS
<1>2. g \in Seq(S) /\ DOMAIN g = DOMAIN f /\ Len(g) = Len(f) /\ g[n] = v /\ \A k \in DOMAIN f : k # n => g[k] = f[k]
  BY <1>1
<1> QED
  BY <1>1, <1>2 DEF SetAt

LEMMA SetAtSame ==
    ASSUME NEW S, NEW f \in Seq(S), NEW n \in DOMAIN f
    PROVE  SetAt(f, n, f[n]) = f
  BY DEF SetAt

\* Every session is fine with the history of its buffer.
SessionsFine(ss, ww) ==
    /\ ss \in Seq(SessionObjects) /\ ww \in Seq(Seq(Lines)) /\ DOMAIN ww = DOMAIN ss
    /\ \A n \in DOMAIN ss : SessionFine(ss[n], ww[n])

LEMMA OneChanges ==
    ASSUME NEW ss, NEW ww, SessionsFine(ss, ww), NEW n \in DOMAIN ss, NEW y, NEW all, SessionFine(y, all)
    PROVE  /\ SessionsFine(SetAt(ss, n, y), SetAt(ww, n, all))
           /\ DOMAIN SetAt(ss, n, y) = DOMAIN ss
           /\ y.commands = ss[n].commands => WorkOf(SetAt(ss, n, y)) = WorkOf(ss)
           /\ y.commands = ss[n].commands + 1 => WorkOf(SetAt(ss, n, y)) = WorkOf(ss) + 1
<1>1. ss \in Seq(SessionObjects) /\ ww \in Seq(Seq(Lines)) /\ DOMAIN ww = DOMAIN ss
  BY DEF SessionsFine
<1>2. y \in SessionObjects /\ all \in Seq(Lines)
  BY DEF SessionFine
<1>3. PICK tt, vv : tt = SetAt(ss, n, y) /\ vv = SetAt(ww, n, all)
  OBVIOUS
<1>4. /\ tt \in Seq(SessionObjects) /\ DOMAIN tt = DOMAIN ss /\ tt[n] = y
      /\ \A k \in DOMAIN ss : k # n => tt[k] = ss[k]
  BY <1>1, <1>2, <1>3, SetAtIs
<1>5. /\ vv \in Seq(Seq(Lines)) /\ DOMAIN vv = DOMAIN ww /\ vv[n] = all
      /\ \A k \in DOMAIN ww : k # n => vv[k] = ww[k]
  <2>1. PICK L : L = Seq(Lines)
    OBVIOUS
  <2>2. ww \in Seq(L) /\ all \in L /\ n \in DOMAIN ww
    BY <1>1, <1>2, <2>1
  <2> QED
    BY <1>3, <2>1, <2>2, SetAtIs
<1>6. ASSUME NEW k \in DOMAIN ss PROVE SessionFine(tt[k], vv[k])
  <2>1. CASE k = n
    BY <1>4, <1>5, <2>1
  <2>2. CASE k # n
    BY <1>1, <1>4, <1>5, <2>2 DEF SessionsFine
  <2> QED
    BY <2>1, <2>2
<1>7. SessionsFine(tt, vv)
  BY <1>1, <1>4, <1>5, <1>6 DEF SessionsFine
<1>8. ASSUME y.commands = ss[n].commands PROVE WorkOf(tt) = WorkOf(ss)
  <2>1. \A k \in DOMAIN ss : tt[k].commands = ss[k].commands
    BY <1>4, <1>8
  <2> QED
    BY <1>1, <1>4, <2>1, WorkSame
<1>9. ASSUME y.commands = ss[n].commands + 1 PROVE WorkOf(tt) = WorkOf(ss) + 1
  <2>1. tt[n].commands = ss[n].commands + 1 /\ \A k \in DOMAIN ss : k # n => tt[k].commands = ss[k].commands
    BY <1>4, <1>9
  <2> QED
    BY <1>1, <1>4, <2>1, WorkMore
<1> QED
  BY <1>3, <1>4, <1>7, <1>8, <1>9

LEMMA OneStarts ==
    ASSUME NEW ss, NEW ww, SessionsFine(ss, ww)
    PROVE  /\ SessionsFine(Append(ss, NewSession), Append(ww, <<>>))
           /\ DOMAIN Append(ss, NewSession) = DOMAIN ss \cup {Len(ss) + 1}
           /\ WorkOf(Append(ss, NewSession)) = WorkOf(ss) + 2
<1>1. ss \in Seq(SessionObjects) /\ ww \in Seq(Seq(Lines)) /\ DOMAIN ww = DOMAIN ss
  BY DEF SessionsFine
<1>2. PICK x, none : x = NewSession /\ none = <<>>
  OBVIOUS
<1>3. SessionFine(x, none) /\ x.commands = 0
  BY <1>2, NewIsFine
<1>4. x \in SessionObjects /\ none \in Seq(Lines)
  BY <1>3 DEF SessionFine
<1>5. PICK m \in Nat : m = Len(ss) /\ DOMAIN ss = 1..m
  BY <1>1
<1>6. Len(ww) = m
  BY <1>1, <1>5
<1>7. PICK tt, vv : tt = Append(ss, x) /\ vv = Append(ww, none)
  OBVIOUS
<1>8. /\ tt \in Seq(SessionObjects) /\ DOMAIN tt = 1..(m + 1) /\ tt[m + 1] = x
      /\ \A k \in 1..m : tt[k] = ss[k]
  BY <1>1, <1>4, <1>5, <1>7
<1>9. /\ vv \in Seq(Seq(Lines)) /\ DOMAIN vv = 1..(m + 1) /\ vv[m + 1] = none
      /\ \A k \in 1..m : vv[k] = ww[k]
  BY <1>1, <1>4, <1>6, <1>7
<1>10. ASSUME NEW k \in 1..(m + 1) PROVE SessionFine(tt[k], vv[k])
  <2>1. CASE k = m + 1
    BY <1>3, <1>8, <1>9, <2>1
  <2>2. CASE k \in 1..m
    BY <1>5, <1>8, <1>9, <2>2 DEF SessionsFine
  <2> QED
    BY <2>1, <2>2
<1>11. SessionsFine(tt, vv)
  BY <1>8, <1>9, <1>10 DEF SessionsFine
<1>12. WorkOf(tt) = WorkOf(ss) + 2
  BY <1>1, <1>3, <1>4, <1>7, WorkStarts
<1>13. DOMAIN tt = DOMAIN ss \cup {m + 1}
  BY <1>5, <1>8
<1> QED
  BY <1>2, <1>5, <1>7, <1>11, <1>12, <1>13

\* The cleanup loop closes some.
LEMMA SomeClose ==
    ASSUME NEW ss, NEW ww, SessionsFine(ss, ww), NEW tt, NEW over,
           tt = [n \in DOMAIN ss |-> IF n \in over THEN Closed(ss[n]) ELSE ss[n]]
    PROVE  SessionsFine(tt, ww) /\ DOMAIN tt = DOMAIN ss /\ WorkOf(tt) = WorkOf(ss)
<1>1. ss \in Seq(SessionObjects) /\ ww \in Seq(Seq(Lines)) /\ DOMAIN ww = DOMAIN ss
  BY DEF SessionsFine
<1>2. DOMAIN tt = DOMAIN ss
  OBVIOUS
<1>3. ASSUME NEW n \in DOMAIN ss
      PROVE  SessionFine(tt[n], ww[n]) /\ tt[n].commands = ss[n].commands
  <2>1. SessionFine(ss[n], ww[n])
    BY DEF SessionsFine
  <2>2. CASE n \in over
    <3>1. tt[n] = Closed(ss[n])
      BY <2>2
    <3> QED
      BY <2>1, <3>1, ClosedIsFine
  <2>3. CASE n \notin over
    <3>1. tt[n] = ss[n]
      BY <2>3
    <3> QED
      BY <2>1, <3>1
  <2> QED
    BY <2>2, <2>3
<1>4. \A n \in DOMAIN tt : tt[n] \in SessionObjects
  BY <1>2, <1>3 DEF SessionFine
<1>5. tt \in Seq(SessionObjects)
  <2>1. PICK m \in Nat : DOMAIN ss = 1..m
    BY <1>1
  <2>2. tt = [n \in DOMAIN tt |-> tt[n]]
    BY <1>2
  <2>3. tt \in [1..m -> SessionObjects]
    BY <1>2, <1>4, <2>1, <2>2
  <2> QED
    BY <2>3, FunctionIsList
<1> QED
  BY <1>1, <1>2, <1>3, <1>5, WorkSame DEF SessionsFine

-----------------------------------------------------------------------------
(* Shell sessions: the table, the invariant and the steps *)

\* Where a request can be, the requests in flight, and the limit.
Slots(D) == {Idle, Admitted} \cup [at : {"started"}, shell : D]
Busy(cr) == {c \in Clients : cr[c] # Idle}
Within(table, cr) ==
    Cardinality(table) + Cardinality(Busy(cr)) <= maxSessions + Cardinality(Clients) - 1

\* The inductive invariant: what SessionsSafe lacks is where in the ring buffer and in
\* the pipes the lines of a stream are, and that a shell prints no more than it was told.
SessionInv ==
    /\ SessionsFine(shells, written)
    /\ WorkOf(shells) <= MaxWork
    /\ creating \in [Clients -> Slots(DOMAIN shells)]
    /\ sessions \subseteq DOMAIN shells
    /\ expired \subseteq DOMAIN shells
    /\ Within(sessions, creating)

LEMMA SlotsDiffer ==
    /\ Admitted # Idle
    /\ \A D : \A z \in [at : {"started"}, shell : D] : z # Idle /\ z # Admitted
  BY DEF Idle, Admitted

LEMMA BusyFinite ==
    ASSUME NEW cr
    PROVE  /\ IsFiniteSet(Busy(cr)) /\ Cardinality(Busy(cr)) \in Nat
           /\ Cardinality(Busy(cr)) <= Cardinality(Clients) /\ Cardinality(Clients) \in Nat
<1>1. IsFiniteSet(Clients) /\ Busy(cr) \subseteq Clients
  BY SessionAssumption DEF Busy
<1> QED
  BY <1>1, FS_Subset, FS_CardinalityType

LEMMA TableFinite ==
    ASSUME NEW ss \in Seq(SessionObjects), NEW T, T \subseteq DOMAIN ss
    PROVE  IsFiniteSet(T) /\ Cardinality(T) \in Nat
<1>1. IsFiniteSet(DOMAIN ss)
  BY CommandsAre
<1> QED
  BY <1>1, FS_Subset, FS_CardinalityType

LEMMA TableShrinks ==
    ASSUME SessionInv, NEW T, T \subseteq sessions
    PROVE  Within(T, creating)
<1>1. shells \in Seq(SessionObjects) /\ sessions \subseteq DOMAIN shells
  BY DEF SessionInv, SessionsFine
<1>2. IsFiniteSet(sessions) /\ Cardinality(sessions) \in Nat
  BY <1>1, TableFinite
<1>3. Cardinality(T) \in Nat /\ Cardinality(T) <= Cardinality(sessions)
  BY <1>2, FS_Subset, FS_CardinalityType
<1>4. Cardinality(Busy(creating)) \in Nat /\ Cardinality(Clients) \in Nat /\ maxSessions \in Nat
  BY BusyFinite, SessionAssumption
<1>5. Cardinality(sessions) + Cardinality(Busy(creating)) <= maxSessions + Cardinality(Clients) - 1
  BY DEF SessionInv, Within
<1> QED
  BY <1>2, <1>3, <1>4, <1>5 DEF Within

LEMMA SessionInitInv == SessionInit => SessionInv
<1> SUFFICES ASSUME SessionInit PROVE SessionInv
  OBVIOUS
<1>1. shells = <<>> /\ written = <<>> /\ sessions = {} /\ expired = {}
  BY DEF SessionInit
<1>2. DOMAIN shells = {} /\ Len(shells) = 0
  BY <1>1
<1>3. shells \in Seq(SessionObjects) /\ written \in Seq(Seq(Lines)) /\ DOMAIN written = DOMAIN shells
  BY <1>1
<1>4. SessionsFine(shells, written)
  BY <1>2, <1>3 DEF SessionsFine
<1>5. WorkOf(shells) = 0
  <2>1. Sum(Commands(shells), {}) = 0
    BY SumEmpty
  <2> QED
    BY <1>2, <2>1 DEF WorkOf
<1>6. creating \in [Clients -> Slots(DOMAIN shells)]
  BY DEF SessionInit, Slots
<1>7. Within(sessions, creating)
  <2>1. Busy(creating) = {}
    BY DEF Busy, SessionInit
  <2>2. Cardinality(sessions) = 0 /\ Cardinality(Busy(creating)) = 0
    BY <1>1, <2>1, FS_EmptySet
  <2>3. Cardinality(Clients) \in Nat
    BY BusyFinite
  <2> QED
    BY <2>2, <2>3, SessionAssumption DEF Within
<1> QED
  BY <1>1, <1>4, <1>5, <1>6, <1>7, SessionAssumption DEF SessionInv

\* A step that starts no shell and lists no session.
LEMMA ShellsStep ==
    ASSUME SessionInv, SessionsFine(shells', written'), DOMAIN shells' = DOMAIN shells,
           WorkOf(shells') <= MaxWork, creating' = creating, sessions' \subseteq sessions,
           expired' \subseteq DOMAIN shells
    PROVE  SessionInv'
<1>1. Within(sessions', creating')
  BY TableShrinks
<1>2. sessions' \subseteq DOMAIN shells' /\ expired' \subseteq DOMAIN shells'
  BY DEF SessionInv
<1>3. creating' \in [Clients -> Slots(DOMAIN shells')]
  BY DEF SessionInv
<1> QED
  BY <1>1, <1>2, <1>3 DEF SessionInv

\* One shell changes, and with it perhaps its history.
LEMMA OneShellStep ==
    ASSUME SessionInv, NEW n \in DOMAIN shells, NEW y, NEW all, SessionFine(y, all),
           \/ y.commands = shells[n].commands
           \/ y.commands = shells[n].commands + 1 /\ WorkOf(shells) < MaxWork,
           shells' = SetAt(shells, n, y), written' = SetAt(written, n, all),
           creating' = creating, sessions' \subseteq sessions, expired' = expired
    PROVE  SessionInv'
<1>1. SessionsFine(shells, written) /\ WorkOf(shells) <= MaxWork /\ expired \subseteq DOMAIN shells
  BY DEF SessionInv
<1>2. PICK tt, vv : tt = SetAt(shells, n, y) /\ vv = SetAt(written, n, all)
  OBVIOUS
<1>3. /\ SessionsFine(tt, vv) /\ DOMAIN tt = DOMAIN shells
      /\ y.commands = shells[n].commands => WorkOf(tt) = WorkOf(shells)
      /\ y.commands = shells[n].commands + 1 => WorkOf(tt) = WorkOf(shells) + 1
  BY <1>1, <1>2, OneChanges
<1>4. WorkOf(shells) \in Nat /\ MaxWork \in Nat
  BY <1>1, CommandsAre, SessionAssumption DEF SessionsFine
<1>5. WorkOf(tt) <= MaxWork
  BY <1>1, <1>3, <1>4
<1> QED
  BY <1>1, <1>2, <1>3, <1>5, ShellsStep

LEMMA SameHistory ==
    ASSUME SessionInv, NEW n \in DOMAIN shells
    PROVE  SetAt(written, n, written[n]) = written /\ SessionFine(shells[n], written[n])
           /\ shells[n].commands <= MaxWork
<1>1. /\ shells \in Seq(SessionObjects) /\ written \in Seq(Seq(Lines)) /\ DOMAIN written = DOMAIN shells
      /\ SessionFine(shells[n], written[n]) /\ WorkOf(shells) <= MaxWork
  BY DEF SessionInv, SessionsFine
<1>2. shells[n].commands <= WorkOf(shells)
  BY <1>1, CommandsBounded
<1>3. WorkOf(shells) \in Nat /\ shells[n].commands \in Nat
  BY <1>1, CommandsAre
<1>4. shells[n].commands <= MaxWork
  BY <1>1, <1>2, <1>3, SessionAssumption
<1>5. SetAt(written, n, written[n]) = written
  BY <1>1, SetAtSame
<1> QED
  BY <1>1, <1>4, <1>5

LEMMA ShellIsRecord ==
    ASSUME SessionInv, NEW n \in DOMAIN shells
    PROVE  shells[n] \in SessionObjects
  BY SameHistory DEF SessionFine

LEMMA ExecStep == ASSUME SessionInv, NEW n \in Shells, execInSession(n) PROVE SessionInv'
<1>1. n \in DOMAIN shells
  BY DEF SessionInv, execInSession
<1>2. WorkOf(shells) < MaxWork
  BY WorkIs DEF execInSession
<1>3. PICK y : y = Commanded(shells[n])
  OBVIOUS
<1>4. shells' = SetAt(shells, n, y)
  BY <1>1, <1>3 DEF execInSession, Commanded, SetAt
<1>5. SessionFine(y, written[n]) /\ y.commands = shells[n].commands + 1
  BY <1>1, <1>3, SameHistory, CommandedIsFine
<1>6. /\ written' = SetAt(written, n, written[n]) /\ creating' = creating
      /\ sessions' \subseteq sessions /\ expired' = expired
  BY <1>1, SameHistory DEF execInSession
<1> QED
  BY <1>1, <1>2, <1>4, <1>5, <1>6, OneShellStep

LEMMA KillStep == ASSUME SessionInv, NEW n \in Shells, BashKill(n) \/ KillSession(n) PROVE SessionInv'
<1>1. n \in DOMAIN shells
  BY DEF SessionInv, BashKill, KillSession
<1>2. PICK y : y = Closed(shells[n])
  OBVIOUS
<1>3. shells' = SetAt(shells, n, y)
  BY <1>1, <1>2 DEF BashKill, KillSession, Closed, SetAt
<1>4. SessionFine(y, written[n]) /\ y.commands = shells[n].commands
  BY <1>1, <1>2, SameHistory, ClosedIsFine
<1>5. /\ written' = SetAt(written, n, written[n]) /\ creating' = creating
      /\ sessions' \subseteq sessions /\ expired' = expired
  BY <1>1, SameHistory DEF BashKill, KillSession
<1> QED
  BY <1>1, <1>3, <1>4, <1>5, OneShellStep

LEMMA ExitStep == ASSUME SessionInv, NEW n \in DOMAIN shells, Exit(n) PROVE SessionInv'
<1>2. PICK y : y = Exited(shells[n])
  OBVIOUS
<1>3. shells' = SetAt(shells, n, y)
  BY <1>2 DEF Exit, Exited, SetAt
<1>4. SessionFine(y, written[n]) /\ y.commands = shells[n].commands
  BY <1>2, SameHistory, ExitedIsFine
<1>5. /\ written' = SetAt(written, n, written[n]) /\ creating' = creating
      /\ sessions' \subseteq sessions /\ expired' = expired
  BY SameHistory DEF Exit
<1> QED
  BY <1>3, <1>4, <1>5, OneShellStep

LEMMA EmitStep ==
    ASSUME SessionInv, NEW n \in DOMAIN shells, NEW s \in Streams, Emit(n, s) PROVE SessionInv'
<1>1. PICK y : y = Emitted(shells[n], s)
  OBVIOUS
<1>2. shells' = SetAt(shells, n, y)
  BY <1>1 DEF Emit, Emitted, SetAt
<1>3. PICK x, all : x = shells[n] /\ all = written[n]
  OBVIOUS
<1>4. /\ SessionFine(x, all) /\ x.commands <= MaxWork /\ x.reading[s]
      /\ x.printed["stdout"] + x.printed["stderr"] < x.commands
  BY <1>3, SameHistory DEF Emit
<1>5. SessionFine(Emitted(x, s), all) /\ Emitted(x, s).commands = x.commands
  BY <1>4, EmittedIsFine
<1>6. SessionFine(y, written[n]) /\ y.commands = shells[n].commands
  BY <1>1, <1>3, <1>5
<1>7. /\ written' = SetAt(written, n, written[n]) /\ creating' = creating
      /\ sessions' \subseteq sessions /\ expired' = expired
  BY SameHistory DEF Emit
<1> QED
  BY <1>2, <1>6, <1>7, OneShellStep

LEMMA DrainStep ==
    ASSUME SessionInv, NEW n \in DOMAIN shells, NEW s \in Streams, Drain(n, s) PROVE SessionInv'
<1>1. PICK y : y = Drained(shells[n], s)
  OBVIOUS
<1>2. PICK x, all : x = shells[n] /\ all = written[n]
  OBVIOUS
<1>3. PICK t : t = Append(all, Head(x.pipe[s]))
  OBVIOUS
<1>4. shells' = SetAt(shells, n, y)
  BY <1>1 DEF Drain, Drained, SetAt
<1>5. written' = SetAt(written, n, t)
  <2>1. n \in DOMAIN written
    BY DEF SessionInv, SessionsFine
  <2> QED
    BY <1>2, <1>3, <2>1 DEF Drain, SetAt
<1>6. SessionFine(x, all) /\ x.pipe[s] # <<>>
  BY <1>2, SameHistory DEF Drain
<1>7. SessionFine(Drained(x, s), t) /\ Drained(x, s).commands = x.commands
  BY <1>3, <1>6, DrainedIsFine
<1>8. SessionFine(y, t) /\ y.commands = shells[n].commands
  BY <1>1, <1>2, <1>7
<1>9. creating' = creating /\ sessions' \subseteq sessions /\ expired' = expired
  BY DEF Drain
<1> QED
  BY <1>4, <1>5, <1>8, <1>9, OneShellStep

LEMMA ScanEndsStep ==
    ASSUME SessionInv, NEW n \in DOMAIN shells, NEW s \in Streams, ScanEnds(n, s) PROVE SessionInv'
<1>2. PICK y : y = ScanEnded(shells[n], s)
  OBVIOUS
<1>3. shells' = SetAt(shells, n, y)
  BY <1>2 DEF ScanEnds, ScanEnded, SetAt
<1>4. SessionFine(y, written[n]) /\ y.commands = shells[n].commands
  BY <1>2, SameHistory, ScanEndedIsFine
<1>5. /\ written' = SetAt(written, n, written[n]) /\ creating' = creating
      /\ sessions' \subseteq sessions /\ expired' = expired
  BY SameHistory DEF ScanEnds
<1> QED
  BY <1>3, <1>4, <1>5, OneShellStep

LEMMA WaitEndsStep == ASSUME SessionInv, NEW n \in DOMAIN shells, WaitEnds(n) PROVE SessionInv'
<1>2. PICK y : y = Waited(shells[n])
  OBVIOUS
<1>3. shells' = SetAt(shells, n, y)
  BY <1>2 DEF WaitEnds, Waited, SetAt
<1>4. SessionFine(y, written[n]) /\ y.commands = shells[n].commands
  BY <1>2, SameHistory, WaitedIsFine
<1>5. /\ written' = SetAt(written, n, written[n]) /\ creating' = creating
      /\ sessions' \subseteq sessions /\ expired' = expired
  BY SameHistory DEF WaitEnds
<1> QED
  BY <1>3, <1>4, <1>5, OneShellStep

LEMMA CleanupStep == ASSUME SessionInv, cleanupExpiredSessions PROVE SessionInv'
<1>1. PICK over : /\ sessions' = sessions \ over
                  /\ shells' = [n \in Started |-> IF n \in over THEN Closed(shells[n]) ELSE shells[n]]
                  /\ UNCHANGED <<creating, expired, written>>
  BY DEF cleanupExpiredSessions
<1>2. PICK tt : tt = [n \in DOMAIN shells |-> IF n \in over THEN Closed(shells[n]) ELSE shells[n]]
  OBVIOUS
<1>3. shells' = tt
  BY <1>1, <1>2 DEF Started
<1>4. SessionsFine(shells, written) /\ WorkOf(shells) <= MaxWork /\ expired \subseteq DOMAIN shells
  BY DEF SessionInv
<1>5. SessionsFine(tt, written) /\ DOMAIN tt = DOMAIN shells /\ WorkOf(tt) = WorkOf(shells)
  BY <1>2, <1>4, SomeClose
<1>6. written' = written /\ creating' = creating /\ sessions' \subseteq sessions /\ expired' = expired
  BY <1>1
<1> QED
  BY <1>3, <1>4, <1>5, <1>6, ShellsStep

LEMMA ExpireStep == ASSUME SessionInv, NEW n \in Shells, Expire(n) PROVE SessionInv'
<1>1. /\ shells' = shells /\ written' = written /\ creating' = creating /\ sessions' = sessions
      /\ expired' = expired \cup {n} /\ n \in sessions
  BY DEF Expire
<1>2. /\ SessionsFine(shells, written) /\ WorkOf(shells) <= MaxWork
      /\ sessions \subseteq DOMAIN shells /\ expired \subseteq DOMAIN shells
  BY DEF SessionInv
<1>3. expired' \subseteq DOMAIN shells
  BY <1>1, <1>2
<1> QED
  BY <1>1, <1>2, <1>3, ShellsStep

\* A request that is admitted, fails or starts its shell is in flight or not.
LEMMA BusyAfter ==
    ASSUME NEW D, NEW cr \in [Clients -> Slots(D)], NEW c \in Clients, NEW z
    PROVE  /\ z # Idle /\ cr[c] # Idle => Busy(SetAt(cr, c, z)) = Busy(cr)
           /\ Busy(SetAt(cr, c, Idle)) = Busy(cr) \ {c}
<1>1. PICK d, e : d = SetAt(cr, c, z) /\ e = SetAt(cr, c, Idle)
  OBVIOUS
<1>2. d[c] = z /\ e[c] = Idle /\ \A k \in Clients : k # c => d[k] = cr[k] /\ e[k] = cr[k]
  BY <1>1 DEF SetAt
<1>3. z # Idle /\ cr[c] # Idle => Busy(d) = Busy(cr)
  BY <1>2 DEF Busy
<1>4. Busy(e) = Busy(cr) \ {c}
  BY <1>2 DEF Busy
<1> QED
  BY <1>1, <1>3, <1>4

LEMMA SlotSet ==
    ASSUME NEW D, NEW E, D \subseteq E, NEW cr \in [Clients -> Slots(D)], NEW c \in Clients, NEW z \in Slots(E)
    PROVE  SetAt(cr, c, z) \in [Clients -> Slots(E)]
<1>1. Slots(D) \subseteq Slots(E)
  BY DEF Slots
<1>2. cr \in [Clients -> Slots(E)]
  BY <1>1
<1>3. [cr EXCEPT ![c] = z] \in [Clients -> Slots(E)]
  BY <1>2
<1> QED
  BY <1>3 DEF SetAt

LEMMA AdmitStep == ASSUME SessionInv, NEW c \in Clients, Admit(c) PROVE SessionInv'
<1>1. /\ shells' = shells /\ written' = written /\ sessions' = sessions /\ expired' = expired
      /\ Cardinality(sessions) < maxSessions
  BY DEF Admit
<1>2. creating' = SetAt(creating, c, Admitted)
  BY DEF Admit, SetAt
<1>3. creating' \in [Clients -> Slots(DOMAIN shells)]
  <2>1. Admitted \in Slots(DOMAIN shells)
    BY DEF Slots
  <2> QED
    BY <1>2, <2>1, SlotSet DEF SessionInv
<1>4. Within(sessions, creating')
  <2>1. Cardinality(Busy(creating')) \in Nat /\ Cardinality(Busy(creating')) <= Cardinality(Clients)
        /\ Cardinality(Clients) \in Nat
    BY BusyFinite
  <2>2. Cardinality(sessions) \in Nat
    BY TableFinite DEF SessionInv, SessionsFine
  <2> QED
    BY <1>1, <2>1, <2>2, SessionAssumption DEF Within
<1> QED
  BY <1>1, <1>3, <1>4 DEF SessionInv

LEMMA FailStep == ASSUME SessionInv, NEW c \in Clients, StartFails(c) PROVE SessionInv'
<1>1. /\ shells' = shells /\ written' = written /\ sessions' = sessions /\ expired' = expired
  BY DEF StartFails
<1>2. creating' = SetAt(creating, c, Idle)
  BY DEF StartFails, SetAt
<1>3. creating' \in [Clients -> Slots(DOMAIN shells)]
  <2>1. Idle \in Slots(DOMAIN shells)
    BY DEF Slots
  <2> QED
    BY <1>2, <2>1, SlotSet DEF SessionInv
<1>4. Busy(creating') = Busy(creating) \ {c}
  BY <1>2, BusyAfter DEF SessionInv
<1>5. Cardinality(Busy(creating')) \in Nat /\ Cardinality(Busy(creating')) <= Cardinality(Busy(creating))
  <2>1. IsFiniteSet(Busy(creating)) /\ Busy(creating') \subseteq Busy(creating)
    BY <1>4, BusyFinite
  <2> QED
    BY <2>1, FS_Subset, FS_CardinalityType
<1>6. Within(sessions, creating')
  <2>1. Cardinality(sessions) \in Nat
    BY TableFinite DEF SessionInv, SessionsFine
  <2>2. Cardinality(Busy(creating)) \in Nat /\ Cardinality(Clients) \in Nat /\ maxSessions \in Nat
    BY BusyFinite, SessionAssumption
  <2>3. Cardinality(sessions) + Cardinality(Busy(creating)) <= maxSessions + Cardinality(Clients) - 1
    BY DEF SessionInv, Within
  <2> QED
    BY <1>5, <2>1, <2>2, <2>3 DEF Within
<1> QED
  BY <1>1, <1>3, <1>6 DEF SessionInv

LEMMA StartStep == ASSUME SessionInv, NEW c \in Clients, StartShell(c) PROVE SessionInv'
<1>1. sessions' = sessions /\ expired' = expired /\ creating[c] = Admitted /\ WorkOf(shells) + 2 <= MaxWork
  BY WorkIs DEF StartShell
<1>2. PICK tt, vv : tt = Append(shells, NewSession) /\ vv = Append(written, <<>>)
  OBVIOUS
<1>3. shells' = tt /\ written' = vv
  BY <1>2 DEF StartShell
<1>4. SessionsFine(shells, written)
  BY DEF SessionInv
<1>5. SessionsFine(tt, vv) /\ DOMAIN tt = DOMAIN shells \cup {Len(shells) + 1} /\ WorkOf(tt) = WorkOf(shells) + 2
  BY <1>2, <1>4, OneStarts
<1>6. PICK z : z = [at |-> "started", shell |-> Len(shells) + 1]
  OBVIOUS
<1>7. creating' = SetAt(creating, c, z)
  BY <1>6 DEF StartShell, SetAt
<1>8. z \in Slots(DOMAIN tt) /\ z # Idle /\ creating[c] # Idle
  BY <1>1, <1>5, <1>6, SlotsDiffer DEF Slots, Idle
<1>9. creating' \in [Clients -> Slots(DOMAIN tt)]
  <2>1. DOMAIN shells \subseteq DOMAIN tt
    BY <1>5
  <2> QED
    BY <1>7, <1>8, <2>1, SlotSet DEF SessionInv
<1>10. Busy(creating') = Busy(creating)
  BY <1>7, <1>8, BusyAfter DEF SessionInv
<1>11. Within(sessions', creating')
  BY <1>1, <1>10 DEF SessionInv, Within
<1>12. sessions' \subseteq DOMAIN tt /\ expired' \subseteq DOMAIN tt
  BY <1>1, <1>5 DEF SessionInv
<1>13. WorkOf(tt) <= MaxWork
  BY <1>1, <1>5
<1> QED
  BY <1>3, <1>5, <1>9, <1>11, <1>12, <1>13 DEF SessionInv

LEMMA ListStep == ASSUME SessionInv, NEW c \in Clients, List(c) PROVE SessionInv'
<1>1. shells' = shells /\ written' = written /\ expired' = expired /\ creating[c].at = "started"
  BY DEF List
<1>2. creating' = SetAt(creating, c, Idle)
  BY DEF List, SetAt
<1>3. PICK n : n = creating[c].shell
  OBVIOUS
<1>4. sessions' = sessions \cup {n}
  BY <1>3 DEF List
<1>5. creating[c] \in [at : {"started"}, shell : DOMAIN shells]
  BY <1>1 DEF SessionInv, Slots, Idle, Admitted
<1>6. n \in DOMAIN shells /\ c \in Busy(creating)
  BY <1>3, <1>5, SlotsDiffer DEF Busy
<1>7. creating' \in [Clients -> Slots(DOMAIN shells)]
  <2>1. Idle \in Slots(DOMAIN shells)
    BY DEF Slots
  <2> QED
    BY <1>2, <2>1, SlotSet DEF SessionInv
<1>8. Busy(creating') = Busy(creating) \ {c}
  BY <1>2, BusyAfter DEF SessionInv
<1>9. Cardinality(Busy(creating')) = Cardinality(Busy(creating)) - 1
  BY <1>6, <1>8, BusyFinite, FS_RemoveElement
<1>10. Cardinality(sessions') \in Nat /\ Cardinality(sessions') <= Cardinality(sessions) + 1
  <2>1. IsFiniteSet(sessions) /\ Cardinality(sessions) \in Nat
    BY TableFinite DEF SessionInv, SessionsFine
  <2>2. CASE n \in sessions
    <3>1. sessions' = sessions
      BY <1>4, <2>2
    <3> QED
      BY <2>1, <3>1
  <2>3. CASE n \notin sessions
    <3>1. Cardinality(sessions \cup {n}) = Cardinality(sessions) + 1
      BY <2>1, <2>3, FS_AddElement
    <3> QED
      BY <1>4, <2>1, <3>1
  <2> QED
    BY <2>2, <2>3
<1>11. Within(sessions', creating')
  <2>1. Cardinality(sessions) \in Nat
    BY TableFinite DEF SessionInv, SessionsFine
  <2>2. Cardinality(Busy(creating)) \in Nat /\ Cardinality(Clients) \in Nat /\ maxSessions \in Nat
    BY BusyFinite, SessionAssumption
  <2>3. Cardinality(sessions) + Cardinality(Busy(creating)) <= maxSessions + Cardinality(Clients) - 1
    BY DEF SessionInv, Within
  <2> QED
    BY <1>9, <1>10, <2>1, <2>2, <2>3 DEF Within
<1>12. sessions' \subseteq DOMAIN shells
  BY <1>4, <1>6 DEF SessionInv
<1> QED
  BY <1>1, <1>7, <1>11, <1>12 DEF SessionInv

LEMMA SessionStepInv == SessionInv /\ [SessionNext]_sessionVars => SessionInv'
<1> SUFFICES ASSUME SessionInv, [SessionNext]_sessionVars PROVE SessionInv'
  OBVIOUS
<1>1. CASE UNCHANGED sessionVars
  BY <1>1 DEF SessionInv, sessionVars
<1>2. ASSUME NEW c \in Clients, CreateSession(c) PROVE SessionInv'
  BY <1>2, AdmitStep, FailStep, StartStep, ListStep DEF CreateSession
<1>3. ASSUME NEW n \in Shells, execInSession(n) \/ BashKill(n) \/ KillSession(n) PROVE SessionInv'
  BY <1>3, ExecStep, KillStep
<1>4. CASE cleanupExpiredSessions
  BY <1>4, CleanupStep
<1>5. ASSUME NEW n \in Shells, Expire(n) \/ ShellStep(n) PROVE SessionInv'
  <2>1. CASE Expire(n)
    BY <2>1, ExpireStep
  <2>2. CASE ShellStep(n)
    <3>1. n \in DOMAIN shells
      BY <2>2 DEF ShellStep, Started
    <3>2. CASE Exit(n)
      BY <3>1, <3>2, ExitStep
    <3>3. ASSUME NEW s \in Streams, Emit(n, s) \/ Drain(n, s) \/ ScanEnds(n, s) PROVE SessionInv'
      BY <3>1, <3>3, EmitStep, DrainStep, ScanEndsStep
    <3>4. CASE WaitEnds(n)
      BY <3>1, <3>4, WaitEndsStep
    <3> QED
      BY <2>2, <3>2, <3>3, <3>4 DEF ShellStep, drainOutput
  <2> QED
    BY <1>5, <2>1, <2>2
<1> QED
  BY <1>1, <1>2, <1>3, <1>4, <1>5 DEF SessionNext

LEMMA SessionInvIsSafe == SessionInv => SessionsSafe
<1> SUFFICES ASSUME SessionInv PROVE SessionsSafe
  OBVIOUS
<1>1. /\ shells \in Seq(SessionObjects) /\ written \in Seq(Seq(Lines)) /\ DOMAIN written = DOMAIN shells
      /\ \A n \in DOMAIN shells : SessionFine(shells[n], written[n])
  BY DEF SessionInv, SessionsFine
<1>2. SessionTypeOK
  <2>1. Len(written) = Len(shells)
    BY <1>1
  <2>2. Work <= MaxWork
    BY WorkIs DEF SessionInv
  <2> QED
    BY <1>1, <2>1, <2>2 DEF SessionTypeOK, SessionInv, Slots, Started
<1>3. SessionBound
  BY DEF SessionBound, SessionInv, Within, Busy
<1>4. ASSUME NEW n \in DOMAIN shells
      PROVE  /\ RingRead(shells[n].outputBuf)
                  = SubSeq(written[n], Len(written[n]) - Len(RingRead(shells[n].outputBuf)) + 1, Len(written[n]))
             /\ Len(RingRead(shells[n].outputBuf)) = IF Len(written[n]) < BufSize THEN Len(written[n]) ELSE BufSize
             /\ \A i \in DOMAIN written[n] :
                   written[n][i][2] = Cardinality({j \in 1..i : written[n][j][1] = written[n][i][1]})
  <2>1. PICK rb, all : rb = shells[n].outputBuf /\ all = written[n]
    OBVIOUS
  <2>2. all \in Seq(Lines) /\ Ringed(rb, all) /\ Numbered(all)
    BY <1>1, <2>1 DEF SessionFine
  <2>3. /\ RingRead(rb) = SubSeq(all, Len(all) - Len(RingRead(rb)) + 1, Len(all))
        /\ Len(RingRead(rb)) = IF Len(all) < BufSize THEN Len(all) ELSE BufSize
    BY <2>2, RingReads
  <2>4. \A i \in DOMAIN all : all[i][2] = Cardinality({j \in 1..i : all[j][1] = all[i][1]})
    BY <2>2 DEF Numbered, Count
  <2> QED
    BY <2>1, <2>3, <2>4
<1>5. OutputFaithful
  BY <1>4 DEF OutputFaithful, Started
<1> QED
  BY <1>2, <1>3, <1>5 DEF SessionsSafe

\* However requests, the two readers of a shell, its exit and the cleanup loop
\* interleave, the sessions listed and in the making exceed maxSessions by less than
\* the requests, and BashOutput and execInSession (pkg/gateway/shell_service.go)
\* return the most recent lines, those of each stream in the order of their printing
\* and without a gap.
THEOREM SessionsAlwaysSafe == SessionSpec => []SessionsSafe
<1>1. SessionInit => SessionInv
  BY SessionInitInv
<1>2. SessionInv /\ [SessionNext]_sessionVars => SessionInv'
  BY SessionStepInv
<1>3. SessionInv => SessionsSafe
  BY SessionInvIsSafe
<1> QED
  BY <1>1, <1>2, <1>3, PTL DEF SessionSpec
=============================================================================
