---------------------------- MODULE ClusterCache ----------------------------
(***************************************************************************)
(* The cache of the cluster's state (pkg/cache/cache.go).  Every operation *)
(* runs under one lock.  Its two users are external: an informer, which    *)
(* delivers the events of an object in their order and some time after     *)
(* they happened, and a scheduler, which assumes a binding, asks the API   *)
(* server for it and then confirms or forgets the assumption.              *)
(*                                                                         *)
(* All sandboxes belong to one tenant; a sandbox is not created again      *)
(* after it was deleted.  podStates always equals sandboxes and is left    *)
(* out, and so are resources, labels and times.                            *)
(***************************************************************************)
EXTENDS Integers, Sequences, FiniteSets

CONSTANTS
    CacheBoxes,  \* sandbox keys
    CacheNodes,  \* node names
    Unbound,     \* the NodeName ""
    Gone,        \* no such object
    MaxTouches   \* bound on the updates that change no binding, and on the
                 \* nodes and tenants that come and go

ASSUME CacheAssumption ==
    /\ IsFiniteSet(CacheBoxes)
    /\ Unbound # Gone /\ {Unbound, Gone} \cap CacheNodes = {}
    /\ CacheNodes \cap {"waits", "queued", "bound", "refused", "done"} = {}
    /\ MaxTouches \in Nat

VARIABLES
    api,      \* the API server: the node of each sandbox, Unbound or Gone
    undelivered,   \* per sandbox: the events the informer has not delivered yet
    cached,   \* c.sandboxes: the NodeName, or Gone
    assumed,  \* c.assumedSandboxes: the node, or Gone
    nodes,    \* c.nodes: Sandboxes and SandboxCount, for the nodes there are
    active,   \* the tenant's ActiveSandboxCount, or Gone
    sched,    \* the scheduler, per sandbox
    touches,  \* history: what counts against MaxTouches
    readded   \* history: the nodes that were removed

cacheVars == <<api, undelivered, cached, assumed, nodes, active, sched, touches, readded>>

NewNode == [Sandboxes |-> {}, SandboxCount |-> 0]

CacheInit ==
    /\ api = [b \in CacheBoxes |-> Gone]
    /\ undelivered = [b \in CacheBoxes |-> <<>>]
    /\ cached = [b \in CacheBoxes |-> Gone]
    /\ assumed = [b \in CacheBoxes |-> Gone]
    /\ nodes = [n \in CacheNodes |-> NewNode]
    /\ active = 0
    /\ sched = [b \in CacheBoxes |-> "waits"]
    /\ touches = 0
    /\ readded = {}

\* The node state of n, if there is one, with b added or taken off.
NodeAdds(ns, n, b) ==
    IF n \notin DOMAIN ns THEN ns
    ELSE [ns EXCEPT ![n] = [Sandboxes |-> @.Sandboxes \cup {b}, SandboxCount |-> @.SandboxCount + 1]]

NodeDrops(ns, n, b) ==
    IF n \notin DOMAIN ns THEN ns
    ELSE [ns EXCEPT ![n] = [Sandboxes |-> @.Sandboxes \ {b}, SandboxCount |-> @.SandboxCount - 1]]

TenantAdds(k) == IF active = Gone THEN Gone ELSE active + k

-----------------------------------------------------------------------------
(* The informer *)

\* A sandbox is new to the cache; the scheduler hears of it as well.
AddSandbox(b, n) ==
    /\ cached[b] = Gone
    /\ cached' = [cached EXCEPT ![b] = n]
    /\ nodes' = NodeAdds(nodes, n, b)
    /\ active' = TenantAdds(1)
    /\ sched' = [sched EXCEPT ![b] = "queued"]
    /\ UNCHANGED assumed

\* Mutant: the old node keeps a sandbox whose node has changed.
UpdateSandboxKeeps(b, n) ==
    /\ cached[b] # Gone
    /\ cached' = [cached EXCEPT ![b] = n]
    /\ nodes' = NodeAdds(nodes, n, b)
    /\ UNCHANGED <<assumed, active, sched>>

\* The assumption, if there is one, is left in assumedSandboxes.
UpdateSandbox(b, n) ==
    /\ cached[b] # Gone
    /\ cached' = [cached EXCEPT ![b] = n]
    /\ LET without == IF cached[b] \notin {Unbound, n} THEN NodeDrops(nodes, cached[b], b) ELSE nodes
       IN  nodes' = NodeAdds(without, n, b)
    /\ UNCHANGED <<assumed, active, sched>>

DeleteSandbox(b) ==
    /\ cached[b] # Gone
    /\ cached' = [cached EXCEPT ![b] = Gone]
    /\ nodes' = NodeDrops(nodes, cached[b], b)
    /\ active' = TenantAdds(-1)
    /\ assumed' = [assumed EXCEPT ![b] = Gone]
    /\ UNCHANGED sched

\* The next event of b reaches the cache.
DeliverEvent(b) ==
    /\ undelivered[b] # <<>>
    /\ undelivered' = [undelivered EXCEPT ![b] = Tail(@)]
    /\ LET e == Head(undelivered[b])
       IN  \/ e.type = "add" /\ AddSandbox(b, e.node)
           \/ e.type = "update" /\ UpdateSandbox(b, e.node)
           \/ e.type = "delete" /\ DeleteSandbox(b)
    /\ UNCHANGED <<api, touches, readded>>

-----------------------------------------------------------------------------
(* The scheduler *)

\* The sandbox may have left the cache since it was queued.
AssumeSandbox(b, n) ==
    /\ sched[b] = "queued" /\ assumed[b] = Gone /\ n \in DOMAIN nodes
    /\ assumed' = [assumed EXCEPT ![b] = n]
    /\ cached' = [cached EXCEPT ![b] = IF @ = Gone THEN Gone ELSE n]
    /\ nodes' = NodeAdds(nodes, n, b)
    /\ sched' = [sched EXCEPT ![b] = n]
    /\ UNCHANGED <<api, undelivered, active, touches, readded>>

\* The API server binds a sandbox that exists and is not bound.
ApiBind(b) ==
    /\ sched[b] \in CacheNodes /\ api[b] = Unbound
    /\ api' = [api EXCEPT ![b] = sched[b]]
    /\ undelivered' = [undelivered EXCEPT ![b] = Append(@, [type |-> "update", node |-> sched[b]])]
    /\ sched' = [sched EXCEPT ![b] = "bound"]
    /\ UNCHANGED <<cached, assumed, nodes, active, touches, readded>>

ApiRefuses(b) ==
    /\ sched[b] \in CacheNodes
    /\ sched' = [sched EXCEPT ![b] = "refused"]
    /\ UNCHANGED <<api, undelivered, cached, assumed, nodes, active, touches, readded>>

ConfirmAssumeSandbox(b) ==
    /\ sched[b] = "bound"
    /\ assumed' = [assumed EXCEPT ![b] = Gone]
    /\ sched' = [sched EXCEPT ![b] = "done"]
    /\ UNCHANGED <<api, undelivered, cached, nodes, active, touches, readded>>

\* An assumption that a deletion has removed gives an error and no change.
ForgetSandbox(b) ==
    /\ sched[b] = "refused"
    /\ sched' = [sched EXCEPT ![b] = IF api[b] = Gone THEN "done" ELSE "queued"]
    /\ IF assumed[b] = Gone THEN UNCHANGED <<cached, assumed, nodes>>
       ELSE /\ assumed' = [assumed EXCEPT ![b] = Gone]
            /\ nodes' = NodeDrops(nodes, assumed[b], b)
            /\ cached' = [cached EXCEPT ![b] = IF @ = Gone THEN Gone ELSE Unbound]
    /\ UNCHANGED <<api, undelivered, active, touches, readded>>

-----------------------------------------------------------------------------
(* Nodes, tenants and the cluster's users *)

Touch == touches < MaxTouches /\ touches' = touches + 1

\* AddNode replaces the state of a node there is.
AddNode(n) ==
    /\ Touch
    /\ nodes' = [m \in DOMAIN nodes \cup {n} |-> IF m = n THEN NewNode ELSE nodes[m]]
    /\ readded' = readded \cup {n}
    /\ UNCHANGED <<api, undelivered, cached, assumed, active, sched>>

RemoveNode(n) ==
    /\ Touch /\ n \in DOMAIN nodes
    /\ nodes' = [m \in DOMAIN nodes \ {n} |-> nodes[m]]
    /\ readded' = readded \cup {n}
    /\ UNCHANGED <<api, undelivered, cached, assumed, active, sched>>

AddTenant ==
    /\ Touch /\ active' = 0
    /\ UNCHANGED <<api, undelivered, cached, assumed, nodes, sched, readded>>

RemoveTenant ==
    /\ Touch /\ active # Gone /\ active' = Gone
    /\ UNCHANGED <<api, undelivered, cached, assumed, nodes, sched, readded>>

ApiCreate(b) ==
    /\ api[b] = Gone /\ sched[b] = "waits" /\ undelivered[b] = <<>>
    /\ api' = [api EXCEPT ![b] = Unbound]
    /\ undelivered' = [undelivered EXCEPT ![b] = Append(@, [type |-> "add", node |-> Unbound])]
    /\ UNCHANGED <<cached, assumed, nodes, active, sched, touches, readded>>

\* Something else about the sandbox changes.
ApiTouch(b) ==
    /\ Touch /\ api[b] # Gone
    /\ undelivered' = [undelivered EXCEPT ![b] = Append(@, [type |-> "update", node |-> api[b]])]
    /\ UNCHANGED <<api, cached, assumed, nodes, active, sched, readded>>

ApiDelete(b) ==
    /\ api[b] # Gone
    /\ api' = [api EXCEPT ![b] = Gone]
    /\ undelivered' = [undelivered EXCEPT ![b] = Append(@, [type |-> "delete", node |-> api[b]])]
    /\ UNCHANGED <<cached, assumed, nodes, active, sched, touches, readded>>

ApiStep(b) == ApiCreate(b) \/ ApiTouch(b) \/ ApiDelete(b)

ScheduleStep(b) ==
    \/ \E n \in CacheNodes : AssumeSandbox(b, n)
    \/ ApiBind(b) \/ ApiRefuses(b) \/ ConfirmAssumeSandbox(b) \/ ForgetSandbox(b)

CacheNext ==
    \/ \E b \in CacheBoxes : DeliverEvent(b) \/ ScheduleStep(b) \/ ApiStep(b)
    \/ \E n \in CacheNodes : AddNode(n) \/ RemoveNode(n)
    \/ AddTenant \/ RemoveTenant

CacheSpec == CacheInit /\ [][CacheNext]_cacheVars

-----------------------------------------------------------------------------
(* Properties *)

\* Once the events of a sandbox have been delivered and no binding of it is
\* under way, the cache has it where the API server has it and lists it on
\* that node and on no other, although a late event may have undone an
\* assumption, or a deletion overtaken it.  Nodes that were removed or added
\* again, and so lost their list, are excepted.
CacheAgrees ==
    \A b \in CacheBoxes : undelivered[b] = <<>> /\ sched[b] \in {"waits", "queued", "done"} =>
        /\ cached[b] = api[b]
        /\ assumed[b] = Gone
        /\ \A n \in DOMAIN nodes \ readded : b \in nodes[n].Sandboxes <=> api[b] = n

\* A tenant is never charged with more sandboxes than the cache has of it,
\* whenever it was added, so that a count can fall behind but not block it.
TenantNotOvercounted ==
    active # Gone => active <= Cardinality({b \in CacheBoxes : cached[b] # Gone})

\* The scheduler's cache catches up with the API server whatever the order of
\* assumptions and events, and never charges a tenant too much.
CacheSafe == CacheAgrees /\ TenantNotOvercounted
=============================================================================
