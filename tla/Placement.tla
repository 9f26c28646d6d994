----------------------------- MODULE Placement -----------------------------
(***************************************************************************)
(* Where a sandbox is placed: the plugins of the scheduler                 *)
(* (pkg/scheduler/plugins/plugins.go), the resources and the NodeInfo of   *)
(* the framework (pkg/scheduler/framework/framework.go) and the steps of   *)
(* scheduleSandbox (pkg/scheduler/scheduler.go) that call them.            *)
(*                                                                         *)
(* What keeps the NodeInfos is external: it is taken to enter a placement  *)
(* (AddSandbox) before the next scheduling cycle and to take off a sandbox *)
(* (RemoveSandbox) once.  A quantity is a number, Unset or Unreadable.     *)
(* Labels are functions from a set of keys.                                *)
(***************************************************************************)
EXTENDS Integers, Sequences, FiniteSets, FiniteSetsExt

CONSTANTS
    PlacedBoxes,  \* sandboxes
    PlaceSpecs,   \* the specs they may have
    NodeOrder,    \* the nodes, in the order of the lister
    labels,       \* per node: its labels
    allocatable,  \* per node: its resources
    Unset,        \* the quantity ""
    Unreadable,   \* a quantity that does not parse
    Nowhere       \* not placed

ResourceNames == {"cpu", "memory", "gpu"}
PlaceNodes == {NodeOrder[i] : i \in DOMAIN NodeOrder}

ASSUME PlaceAssumption ==
    /\ IsFiniteSet(PlacedBoxes)
    /\ Len(NodeOrder) \in Nat /\ DOMAIN NodeOrder = 1..Len(NodeOrder)
    /\ \A n \in PlaceNodes : allocatable[n] \in [ResourceNames -> Nat]
    /\ Nowhere \notin PlaceNodes

\* Quantities are natural, and a spec names a quantity of each resource.
ASSUME PlaceSpecsAssumption ==
    \A s \in PlaceSpecs : \A k \in ResourceNames : s.req[k] \in Nat \cup {Unset, Unreadable}

VARIABLES
    spec,   \* the spec of each sandbox
    place,  \* the node scheduleSandbox has chosen
    info    \* per node: the NodeInfo

placeVars == <<spec, place, info>>

Parses(q) == q \notin {Unset, Unreadable}

\* Resource.Add
ResourceAdd(r, req) == [k \in ResourceNames |-> IF Parses(req[k]) THEN r[k] + req[k] ELSE r[k]]

\* Resource.Sub: not below zero
ResourceSub(r, req) ==
    [k \in ResourceNames |->
        IF ~ Parses(req[k]) THEN r[k]
        ELSE IF r[k] < req[k] THEN 0 ELSE r[k] - req[k]]

\* Mutant: only CPU and memory are looked at.
FitsWithoutGPU(r, req) == \A k \in {"cpu", "memory"} : Parses(req[k]) => r[k] >= req[k]

\* Resource.Fits
Fits(r, req) == \A k \in ResourceNames : Parses(req[k]) => r[k] >= req[k]

PlaceInit ==
    /\ spec \in [PlacedBoxes -> PlaceSpecs]
    /\ place = [b \in PlacedBoxes |-> Nowhere]
    /\ info = [n \in PlaceNodes |->
                 [Sandboxes |-> {}, requested |-> [k \in ResourceNames |-> 0],
                  available |-> allocatable[n]]]

-----------------------------------------------------------------------------
(* The plugins *)

\* ResourceFit.PreFilter and PrioritySort.PreFilter.  The GPU is not checked.
PreFilter(s) ==
    /\ ~ (s.req.cpu = Unset /\ s.req.memory = Unset)
    /\ s.req.cpu # Unreadable /\ s.req.memory # Unreadable
    /\ s.priority >= 0

HasLabel(n, key) == key \in DOMAIN labels[n]

\* One expression of a term.
matchExpression(e, n) ==
    CASE e.op = "In" -> HasLabel(n, e.key) /\ labels[n][e.key] \in e.values
      [] e.op = "NotIn" -> HasLabel(n, e.key) => labels[n][e.key] \notin e.values
      [] e.op = "Exists" -> HasLabel(n, e.key)
      [] e.op = "DoesNotExist" -> ~ HasLabel(n, e.key)
      [] OTHER -> TRUE

matchNodeSelectorTerm(term, n) == \A e \in term : matchExpression(e, n)

\* TenantAffinity.Filter; affinity: NodeAffinity has a required part.
TenantAffinityFilter(s, n) ==
    /\ s.affinity => \E term \in s.terms : matchNodeSelectorTerm(term, n)
    /\ s.policy = "TenantAntiAffinity" =>
          ~ (HasLabel(n, "tenant") /\ labels[n]["tenant"] = s.tenant)

\* TenantIsolation.Filter
TenantIsolationFilter(s, n) ==
    s.policy = "TenantAffinity" =>
        (HasLabel(n, "dedicated-tenant") => labels[n]["dedicated-tenant"] = s.tenant)

\* RuntimeCompatibility.Filter
RuntimeFilter(s, n) ==
    CASE s.runtime = "kata" -> HasLabel(n, "runtime-kata") /\ labels[n]["runtime-kata"] = "true"
      [] s.runtime = "gvisor" -> HasLabel(n, "runtime-gvisor") /\ labels[n]["runtime-gvisor"] = "true"
      [] OTHER -> s.runtime = "runc"

\* RunFilterPlugins
Feasible(s, n) ==
    /\ Fits(info[n].available, s.req)
    /\ TenantAffinityFilter(s, n) /\ TenantIsolationFilter(s, n) /\ RuntimeFilter(s, n)

\* NodeResourcesFit, NodeResourcesBalancedAllocation and ImageLocality give
\* every node 50, and none of them normalizes.
Score(s, n) == 50 + 50 + 50

\* selectNode: the first of those with the highest score.
Selected(s) ==
    LET feasible == {i \in DOMAIN NodeOrder : Feasible(s, NodeOrder[i])}
        best == {i \in feasible : \A j \in feasible : Score(s, NodeOrder[i]) >= Score(s, NodeOrder[j])}
    IN  IF feasible = {} THEN Nowhere ELSE NodeOrder[Min(best)]

-----------------------------------------------------------------------------
(* Actions *)

Entered(b) == place[b] # Nowhere => b \in info[place[b]].Sandboxes

\* scheduleSandbox: the other plugins that run have no effect and always
\* succeed.  A sandbox with no node goes back to the queue.
scheduleSandbox(b) ==
    /\ place[b] = Nowhere
    /\ \A o \in PlacedBoxes : Entered(o)
    /\ PreFilter(spec[b])
    /\ Selected(spec[b]) # Nowhere
    /\ place' = [place EXCEPT ![b] = Selected(spec[b])]
    /\ UNCHANGED <<spec, info>>

\* NodeInfo.AddSandbox
NodeAddSandbox(b) ==
    /\ ~ Entered(b)
    /\ info' = [info EXCEPT ![place[b]] =
                  [Sandboxes |-> @.Sandboxes \cup {b},
                   requested |-> ResourceAdd(@.requested, spec[b].req),
                   available |-> ResourceSub(@.available, spec[b].req)]]
    /\ UNCHANGED <<spec, place>>

\* NodeInfo.RemoveSandbox, for a sandbox that has ended; another may be
\* created under its name.
NodeRemoveSandbox(b) ==
    /\ place[b] # Nowhere /\ Entered(b)
    /\ info' = [info EXCEPT ![place[b]] =
                  [Sandboxes |-> @.Sandboxes \ {b},
                   requested |-> ResourceSub(@.requested, spec[b].req),
                   available |-> ResourceAdd(@.available, spec[b].req)]]
    /\ place' = [place EXCEPT ![b] = Nowhere]
    /\ UNCHANGED spec

PlaceNext ==
    \E b \in PlacedBoxes : scheduleSandbox(b) \/ NodeAddSandbox(b) \/ NodeRemoveSandbox(b)

PlaceSpec == PlaceInit /\ [][PlaceNext]_placeVars

-----------------------------------------------------------------------------
(* Properties *)

Asked(b, k) == IF Parses(spec[b].req[k]) THEN spec[b].req[k] ELSE 0

\* A node's books: RequestedResource is what its sandboxes ask for, and
\* AvailableResource the rest of what the node has.  Sub stops at zero, so
\* this holds only as long as no placement ever takes more than there is:
\* once it did, removing a sandbox would return resources that never were.
NodeBalanced ==
    \A n \in PlaceNodes : \A k \in ResourceNames :
        /\ info[n].requested[k] = MapThenSumSet(LAMBDA b : Asked(b, k), info[n].Sandboxes)
        /\ info[n].available[k] = allocatable[n][k] - info[n].requested[k]

\* The types also declare Gt and Lt, which matchExpression lets every node pass.
KnownOperators ==
    \A s \in PlaceSpecs : \A term \in s.terms : \A e \in term :
        e.op \in {"In", "NotIn", "Exists", "DoesNotExist"}

\* A sandbox is only on a node that has its runtime and its required labels,
\* and never, when it asks to be kept away from its tenant's nodes, on one of
\* these.  Required labels are read as Kubernetes does: NotIn and
\* DoesNotExist also hold of a node without the label.
PlacedWell ==
    \A b \in PlacedBoxes : place[b] # Nowhere =>
        LET n == place[b]
            s == spec[b]
            Holds(key, v) == HasLabel(n, key) /\ labels[n][key] = v
        IN  /\ s.runtime # "runc" => Holds(IF s.runtime = "kata" THEN "runtime-kata" ELSE "runtime-gvisor", "true")
            /\ s.affinity =>
                  \E term \in s.terms : \A e \in term :
                      LET hit == \E v \in e.values : Holds(e.key, v)
                      IN  CASE e.op = "In" -> hit
                            [] e.op = "NotIn" -> ~ hit
                            [] e.op = "Exists" -> HasLabel(n, e.key)
                            [] OTHER -> ~ HasLabel(n, e.key)
            /\ s.policy = "TenantAntiAffinity" => ~ Holds("tenant", s.tenant)

\* The filters let no sandbox on a node without room or against its terms, so that
\* the node's books stay exact.
PlacementSafe == NodeBalanced /\ PlacedWell
=============================================================================
