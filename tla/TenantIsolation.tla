--------------------------- MODULE TenantIsolation ---------------------------
(***************************************************************************)
(* The two keepers of tenant isolation.                                    *)
(*                                                                         *)
(* IsolationEnforcer (pkg/tenant/isolation.go) has three reader-writer     *)
(* locks: its own, the one of the network rules and the one of the nodes.  *)
(* Its methods take them in different orders and hold the first while they *)
(* wait for the second, so a call is modelled as the sequence of its       *)
(* critical sections.  A lock is Go's sync.RWMutex: a writer that waits    *)
(* lets no new reader in.                                                  *)
(*                                                                         *)
(* TenantIsolationManager (pkg/tenant/isolation/manager.go) keeps VXLAN    *)
(* identifiers and dedicated nodes under one lock.                         *)
(***************************************************************************)
EXTENDS Naturals, FiniteSets

CONSTANTS
    Tenants,
    IsolationNodes,
    NoTenant,
    TenantSpecs,    \* [level, network, inter, from]: from are AllowedIngressFromTenants
    Callers,        \* the goroutines that call the enforcer
    NoCaller,
    MaxVNI          \* bound: VNIs handed out

ASSUME IsolationAssumption ==
    /\ NoTenant \notin Tenants /\ NoCaller \notin Callers /\ MaxVNI \in Nat
    /\ "*" \notin Tenants    \* "*" is every tenant

VARIABLES
    isolation,     \* ie.policies: none, or the policy of the tenant
    networks,     \* tenantNetworks
    rules,        \* interTenantRules: <<from, to>>, to may be "*"
    nodeOf,       \* nodeAssignments
    nodesOf,      \* tenantNodes
    writer,       \* per lock: who holds or awaits it for writing
    readers,      \* per lock: how many hold it for reading
    enforcing,        \* where each caller is
    vnis,         \* tenantVNI of the other manager, 0 for none
    nextVNI,
    ownerOf,      \* its nodeTenants
    ownedBy       \* its tenantNodes

enforcerVars == <<isolation, networks, rules, nodeOf, nodesOf, writer, readers, enforcing>>
managerVars == <<vnis, nextVNI, ownerOf, ownedBy>>
isolationVars == <<enforcerVars, managerVars>>

Locks == {"ie", "net", "node"}

NoIsolation == [level |-> "none", network |-> FALSE, inter |-> FALSE, dedicated |-> {}]

Returned == [at |-> "out"]

EnforcerInit ==
    /\ isolation = [t \in Tenants |-> NoIsolation]
    /\ networks = {} /\ rules = {}
    /\ nodeOf = [n \in IsolationNodes |-> NoTenant]
    /\ nodesOf = [t \in Tenants |-> {}]
    /\ writer = [l \in Locks |-> NoCaller]
    /\ readers = [l \in Locks |-> 0]
    /\ enforcing = [c \in Callers |-> Returned]

-----------------------------------------------------------------------------
(* Go's reader-writer lock                                                 *)

\* The critical sections that are for writing, and their locks.
WriteLock ==
    [register |-> "ie", registerNet |-> "net",
     unregister |-> "ie", unregisterNet |-> "net", unregisterNodes |-> "node",
     assign |-> "node", assignPolicy |-> "ie",
     release |-> "node", releasePolicy |-> "ie"]

\* A writer keeps new readers out from here on.
Announce(c) ==
    /\ enforcing[c].at \in DOMAIN WriteLock
    /\ writer[WriteLock[enforcing[c].at]] = NoCaller
    /\ writer' = [writer EXCEPT ![WriteLock[enforcing[c].at]] = c]
    /\ UNCHANGED <<isolation, networks, rules, nodeOf, nodesOf, readers, enforcing, managerVars>>

\* The writer c has the lock of its section.
Writing(c, section) ==
    /\ enforcing[c].at = section
    /\ writer[WriteLock[section]] = c /\ readers[WriteLock[section]] = 0

Reading(c, section, lock) == enforcing[c].at = section /\ writer[lock] = NoCaller

GoesTo(c, section) == enforcing' = [enforcing EXCEPT ![c].at = section]

Returns(c) == enforcing' = [enforcing EXCEPT ![c] = Returned]

\* The deferred unlocks of the writer c.
Unlocked(ls) == [l \in Locks |-> IF l \in ls THEN NoCaller ELSE writer[l]]

-----------------------------------------------------------------------------
(* The enforcer                                                            *)

Call(c) ==
    /\ enforcing[c].at = "out"
    /\ \E t \in Tenants :
        \/ \E s \in TenantSpecs : enforcing' = [enforcing EXCEPT ![c] = [at |-> "register", t |-> t, spec |-> s]]
        \/ enforcing' = [enforcing EXCEPT ![c] = [at |-> "unregister", t |-> t]]
        \/ \E u \in Tenants : enforcing' = [enforcing EXCEPT ![c] = [at |-> "talks", t |-> t, to |-> u]]
        \/ \E n \in IsolationNodes, op \in {"assign", "release", "allowed", "validate"} :
               enforcing' = [enforcing EXCEPT ![c] = [at |-> op, t |-> t, n |-> n]]
    /\ UNCHANGED <<isolation, networks, rules, nodeOf, nodesOf, writer, readers, managerVars>>

\* A new policy replaces the one before, its list of dedicated nodes included.
RegisterIsolationPolicy(c) ==
    LET s == enforcing[c].spec IN
    /\ Writing(c, "register")
    /\ isolation' = [isolation EXCEPT ![enforcing[c].t] =
           [level |-> s.level, network |-> s.network, inter |-> s.inter, dedicated |-> {}]]
    /\ IF s.network THEN GoesTo(c, "registerNet") /\ UNCHANGED writer
                    ELSE Returns(c) /\ writer' = Unlocked({"ie"})
    /\ UNCHANGED <<networks, rules, nodeOf, nodesOf, readers, managerVars>>

RegisterTenantNetwork(c) ==
    LET t == enforcing[c].t
        s == enforcing[c].spec
    IN
    /\ Writing(c, "registerNet")
    /\ networks' = networks \cup {t}
    /\ rules' = rules \cup (IF s.inter THEN {<<t, "*">>} ELSE {}) \cup {<<f, t>> : f \in s.from}
    /\ Returns(c) /\ writer' = Unlocked({"ie", "net"})
    /\ UNCHANGED <<isolation, nodeOf, nodesOf, readers, managerVars>>

UnregisterIsolationPolicy(c) ==
    /\ Writing(c, "unregister")
    /\ isolation' = [isolation EXCEPT ![enforcing[c].t] = NoIsolation]
    /\ GoesTo(c, "unregisterNet")
    /\ UNCHANGED <<networks, rules, nodeOf, nodesOf, writer, readers, managerVars>>

UnregisterTenantNetwork(c) ==
    /\ Writing(c, "unregisterNet")
    /\ networks' = networks \ {enforcing[c].t}
    /\ rules' = {r \in rules : enforcing[c].t \notin {r[1], r[2]}}
    /\ GoesTo(c, "unregisterNodes") /\ writer' = Unlocked({"net"})
    /\ UNCHANGED <<isolation, nodeOf, nodesOf, readers, managerVars>>

UnregisterTenantNodes(c) ==
    LET t == enforcing[c].t IN
    /\ Writing(c, "unregisterNodes")
    /\ nodeOf' = [n \in IsolationNodes |-> IF n \in nodesOf[t] THEN NoTenant ELSE nodeOf[n]]
    /\ nodesOf' = [nodesOf EXCEPT ![t] = {}]
    /\ Returns(c) /\ writer' = Unlocked({"ie", "node"})
    /\ UNCHANGED <<isolation, networks, rules, readers, managerVars>>

\* With no policy the answer is yes; else ie.mu stays read-locked.
IsNodeAllowed(c) ==
    /\ Reading(c, "allowed", "ie")
    /\ IF isolation[enforcing[c].t] = NoIsolation
       THEN Returns(c) /\ UNCHANGED readers
       ELSE GoesTo(c, "allowedNode") /\ readers' = [readers EXCEPT !["ie"] = @ + 1]
    /\ UNCHANGED <<isolation, networks, rules, nodeOf, nodesOf, writer, managerVars>>

IsNodeAllowedAnswers(c) ==
    /\ Reading(c, "allowedNode", "node")
    /\ Returns(c) /\ readers' = [readers EXCEPT !["ie"] = @ - 1]
    /\ UNCHANGED <<isolation, networks, rules, nodeOf, nodesOf, writer, managerVars>>

\* A rule for "*" is not looked at here: the policy below says the same.
IsNetworkCommunicationAllowed(c) ==
    /\ Reading(c, "talks", "net")
    /\ IF enforcing[c].t = enforcing[c].to \/ <<enforcing[c].t, enforcing[c].to>> \in rules
       THEN Returns(c) /\ UNCHANGED readers
       ELSE GoesTo(c, "talksPolicy") /\ readers' = [readers EXCEPT !["net"] = @ + 1]
    /\ UNCHANGED <<isolation, networks, rules, nodeOf, nodesOf, writer, managerVars>>

IsNetworkCommunicationAnswers(c) ==
    /\ Reading(c, "talksPolicy", "ie")
    /\ Returns(c) /\ readers' = [readers EXCEPT !["net"] = @ - 1]
    /\ UNCHANGED <<isolation, networks, rules, nodeOf, nodesOf, writer, managerVars>>

AssignDedicatedNode(c) ==
    LET t == enforcing[c].t
        n == enforcing[c].n
    IN
    /\ Writing(c, "assign")
    /\ IF nodeOf[n] # NoTenant
       THEN Returns(c) /\ writer' = Unlocked({"node"}) /\ UNCHANGED <<nodeOf, nodesOf>>
       ELSE /\ nodeOf' = [nodeOf EXCEPT ![n] = t]
            /\ nodesOf' = [nodesOf EXCEPT ![t] = @ \cup {n}]
            /\ GoesTo(c, "assignPolicy") /\ UNCHANGED writer
    /\ UNCHANGED <<isolation, networks, rules, readers, managerVars>>

AssignToPolicy(c) ==
    /\ Writing(c, "assignPolicy")
    /\ isolation' = IF isolation[enforcing[c].t] = NoIsolation THEN isolation
                   ELSE [isolation EXCEPT ![enforcing[c].t].dedicated = @ \cup {enforcing[c].n}]
    /\ Returns(c) /\ writer' = Unlocked({"ie", "node"})
    /\ UNCHANGED <<networks, rules, nodeOf, nodesOf, readers, managerVars>>

\* Mutant: the lock of the nodes is given back before the policy is changed.
ReleaseDedicatedNodeEarly(c) ==
    LET t == enforcing[c].t
        n == enforcing[c].n
    IN
    /\ Writing(c, "release")
    /\ IF nodeOf[n] # t
       THEN Returns(c) /\ UNCHANGED <<nodeOf, nodesOf>>
       ELSE /\ nodeOf' = [nodeOf EXCEPT ![n] = NoTenant]
            /\ nodesOf' = [nodesOf EXCEPT ![t] = @ \ {n}]
            /\ GoesTo(c, "releasePolicy")
    /\ writer' = Unlocked({"node"})
    /\ UNCHANGED <<isolation, networks, rules, readers, managerVars>>

ReleaseDedicatedNode(c) ==
    LET t == enforcing[c].t
        n == enforcing[c].n
    IN
    /\ Writing(c, "release")
    /\ IF nodeOf[n] # t
       THEN Returns(c) /\ writer' = Unlocked({"node"}) /\ UNCHANGED <<nodeOf, nodesOf>>
       ELSE /\ nodeOf' = [nodeOf EXCEPT ![n] = NoTenant]
            /\ nodesOf' = [nodesOf EXCEPT ![t] = @ \ {n}]
            /\ GoesTo(c, "releasePolicy") /\ UNCHANGED writer
    /\ UNCHANGED <<isolation, networks, rules, readers, managerVars>>

ReleaseFromPolicy(c) ==
    /\ Writing(c, "releasePolicy")
    /\ isolation' = [isolation EXCEPT ![enforcing[c].t].dedicated = @ \ {enforcing[c].n}]
    /\ Returns(c) /\ writer' = Unlocked({"ie", "node"})
    /\ UNCHANGED <<networks, rules, nodeOf, nodesOf, readers, managerVars>>

\* ValidateSandboxPlacement calls IsNodeAllowed with ie.mu read-locked.
ValidateSandboxPlacement(c) ==
    /\ Reading(c, "validate", "ie")
    /\ IF isolation[enforcing[c].t] = NoIsolation
       THEN Returns(c) /\ UNCHANGED readers
       ELSE GoesTo(c, "validateAllowed") /\ readers' = [readers EXCEPT !["ie"] = @ + 1]
    /\ UNCHANGED <<isolation, networks, rules, nodeOf, nodesOf, writer, managerVars>>

ValidateLocksAgain(c) ==
    /\ Reading(c, "validateAllowed", "ie")
    /\ GoesTo(c, "validateNode") /\ readers' = [readers EXCEPT !["ie"] = @ + 1]
    /\ UNCHANGED <<isolation, networks, rules, nodeOf, nodesOf, writer, managerVars>>

ValidateNode(c) ==
    /\ Reading(c, "validateNode", "node")
    /\ IF nodeOf[enforcing[c].n] \in {NoTenant, enforcing[c].t}
       THEN GoesTo(c, "validateLevel") /\ readers' = [readers EXCEPT !["ie"] = @ - 1]
       ELSE Returns(c) /\ readers' = [readers EXCEPT !["ie"] = @ - 2]
    /\ UNCHANGED <<isolation, networks, rules, nodeOf, nodesOf, writer, managerVars>>

\* A tenant with Maximum isolation is refused the nodes its policy does not name.
ValidateAnswers(c) ==
    /\ enforcing[c].at = "validateLevel"
    /\ Returns(c) /\ readers' = [readers EXCEPT !["ie"] = @ - 1]
    /\ UNCHANGED <<isolation, networks, rules, nodeOf, nodesOf, writer, managerVars>>

Section(c) ==
    \/ Announce(c)
    \/ RegisterIsolationPolicy(c) \/ RegisterTenantNetwork(c)
    \/ UnregisterIsolationPolicy(c) \/ UnregisterTenantNetwork(c) \/ UnregisterTenantNodes(c)
    \/ IsNodeAllowed(c) \/ IsNodeAllowedAnswers(c)
    \/ IsNetworkCommunicationAllowed(c) \/ IsNetworkCommunicationAnswers(c)
    \/ AssignDedicatedNode(c) \/ AssignToPolicy(c)
    \/ ReleaseDedicatedNode(c) \/ ReleaseFromPolicy(c)
    \/ ValidateSandboxPlacement(c) \/ ValidateLocksAgain(c) \/ ValidateNode(c) \/ ValidateAnswers(c)

EnforcerNext == \E c \in Callers : Call(c) \/ Section(c)

-----------------------------------------------------------------------------
(* The manager                                                             *)

ManagerInit ==
    /\ vnis = [t \in Tenants |-> 0]
    /\ nextVNI = 1
    /\ ownerOf = [n \in IsolationNodes |-> NoTenant]
    /\ ownedBy = [t \in Tenants |-> {}]

\* What the higher levels add to the standard one is logged only.
EnforceIsolation(t) ==
    /\ nextVNI <= MaxVNI
    /\ vnis' = IF vnis[t] = 0 THEN [vnis EXCEPT ![t] = nextVNI] ELSE vnis
    /\ nextVNI' = IF vnis[t] = 0 THEN nextVNI + 1 ELSE nextVNI
    /\ UNCHANGED <<ownerOf, ownedBy, enforcerVars>>

RemoveIsolation(t) ==
    /\ ownerOf' = [n \in IsolationNodes |-> IF n \in ownedBy[t] THEN NoTenant ELSE ownerOf[n]]
    /\ ownedBy' = [ownedBy EXCEPT ![t] = {}]
    /\ vnis' = [vnis EXCEPT ![t] = 0]
    /\ UNCHANGED <<nextVNI, enforcerVars>>

\* Neither the tenant that had a node before nor the nodes that the tenant had
\* before are told.
AssignDedicatedNodes(t, ns) ==
    /\ ownerOf' = [n \in IsolationNodes |-> IF n \in ns THEN t ELSE ownerOf[n]]
    /\ ownedBy' = [ownedBy EXCEPT ![t] = ns]
    /\ UNCHANGED <<vnis, nextVNI, enforcerVars>>

ManagerNext ==
    \E t \in Tenants :
        \/ EnforceIsolation(t) \/ RemoveIsolation(t)
        \/ \E ns \in SUBSET IsolationNodes : AssignDedicatedNodes(t, ns)

IsolationInit == EnforcerInit /\ ManagerInit

IsolationNext == EnforcerNext \/ ManagerNext

IsolationSpec == IsolationInit /\ [][IsolationNext]_isolationVars

-----------------------------------------------------------------------------
\* A node is on the list of the tenant it is assigned to and on no other, and a
\* policy names no node that is another tenant's, whatever calls are under way.
NodesAgree ==
    /\ \A t \in Tenants : nodesOf[t] = {n \in IsolationNodes : nodeOf[n] = t}
    /\ \A t \in Tenants : \A n \in isolation[t].dedicated : nodeOf[n] \in {t, NoTenant}

\* A rule that lets another tenant reach a tenant is withdrawn with the tenant's
\* network: no rule outlives what it was made for.
RulesBacked ==
    \A r \in rules : IF r[2] = "*" THEN r[1] \in networks ELSE r[2] \in networks

\* Two tenants never have one VXLAN identifier.
VNIUnique == \A t, u \in Tenants : vnis[t] = vnis[u] /\ vnis[t] # 0 => t = u

\* Nodes, network rules and network identifiers belong to one tenant, although they
\* are changed under several locks.
IsolationSafe == NodesAgree /\ RulesBacked /\ VNIUnique
=============================================================================
