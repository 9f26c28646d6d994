---------------------------- MODULE NodeDevices -----------------------------
(***************************************************************************)
(* What a node hands out to sandboxes: addresses, network namespaces and   *)
(* firewall chains (pkg/network/cni/manager.go), GPUs                      *)
(* (pkg/gpu/manager.go) and bandwidth (pkg/network/traffic/shaper.go).     *)
(* SetupNetwork and TeardownNetwork hold nm.mu all along, AllocateGPUs     *)
(* and ReleaseGPUs gm.mu: each is one action. The commands ip, iptables    *)
(* and the CNI plugin are external and may fail; "ip netns add" does if    *)
(* the namespace exists.                                                   *)
(*                                                                         *)
(* Addresses are numbers, the subnet is 0..Broadcast. The address of the   *)
(* plugin's own host-local store is left out. A sandbox sets its network   *)
(* up once, and asks for GPUs once, before it gives them back.             *)
(*                                                                         *)
(* The shaper records limits in activeLimits and puts them on an           *)
(* interface with a handful of tc commands, any of which may fail and      *)
(* end the call where it is. There is one interface. A rate is a number    *)
(* of bits per second; formatRate cuts it down to whole units.             *)
(***************************************************************************)
EXTENDS Integers, FiniteSets

CONSTANTS
    NetBoxes,     \* sandboxIDs
    Broadcast,    \* the last address of the subnet
    GPUDevices,   \* how many GPUs discoverDevices found
    MaxSetups     \* bound on the calls of SetupNetwork

ASSUME DevicesAssumption ==
    /\ Broadcast \in Nat /\ GPUDevices \in Nat /\ MaxSetups \in Nat

VARIABLES
    allocations,  \* s.allocations: pairs of an address and a sandbox
    nextIP,       \* s.nextIP
    netns,        \* the network namespaces that exist
    chains,       \* the iptables chains that exist
    connected,    \* sandboxes whose last SetupNetwork succeeded
    allocs,       \* gm.allocs: the devices of a sandbox
    uses,         \* devices that a sandbox was given and has not given back
    setups        \* calls of SetupNetwork so far

netVars == <<allocations, nextIP, netns, chains, connected, setups>>
gpuVars == <<allocs, uses>>
deviceVars == <<netVars, gpuVars>>

DevicesInit ==
    /\ allocations = {}
    /\ nextIP = 2    \* the first is the network, the second the gateway
    /\ netns = {} /\ chains = {} /\ connected = {} /\ setups = 0
    /\ allocs = [b \in NetBoxes |-> {}]
    /\ uses = [b \in NetBoxes |-> {}]

-----------------------------------------------------------------------------
(* NetworkManager *)

Taken == {a[1] : a \in allocations}

\* The search begins at nextIP and never returns to the addresses before it.
\* Only an address that the search steps on to is looked up in the subnet.
Allocate ==
    IF nextIP \notin Taken THEN {nextIP}
    ELSE LET free == (nextIP + 1 .. Broadcast) \ Taken IN
         {i \in free : \A j \in free : i <= j}

\* Release takes away one allocation of the sandbox.
AfterRelease(as, b) ==
    LET own == {a \in as : a[2] = b} IN
    IF own = {} THEN {as} ELSE {as \ {a} : a \in own}

SetupNetwork(b) ==
    /\ setups < MaxSetups /\ setups' = setups + 1
    /\ b \notin connected
    /\ \E ip \in Allocate :
          LET as == allocations \cup {<<ip, b>>} IN
          /\ nextIP' = ip + 1
          /\ \/ \* createNetNS fails
                /\ allocations' \in AfterRelease(as, b)
                /\ UNCHANGED <<netns, chains, connected>>
             \/ \* cniAdd fails, then removeNetNS may
                /\ b \notin netns
                /\ allocations' \in AfterRelease(as, b)
                /\ netns' \in {netns, netns \cup {b}}
                /\ UNCHANGED <<chains, connected>>
             \/ \* applyNetworkRules, whose failure is logged, if there are rules
                /\ b \notin netns
                /\ allocations' = as
                /\ netns' = netns \cup {b}
                /\ chains' \in {chains, chains \cup {b}}
                /\ connected' = connected \cup {b}
    /\ UNCHANGED gpuVars

\* Mutant: the address is given back only if the namespace could be removed.
TeardownNetworkStrict(b) ==
    /\ b \in connected
    /\ \/ netns' = netns \ {b} /\ allocations' \in AfterRelease(allocations, b)
       \/ UNCHANGED <<netns, allocations>>
    /\ chains' \in {chains, chains \ {b}}
    /\ connected' = connected \ {b}
    /\ UNCHANGED <<nextIP, setups, gpuVars>>

\* Every step is tried and its failure only logged.
TeardownNetwork(b) ==
    /\ b \in connected
    /\ allocations' \in AfterRelease(allocations, b)
    /\ netns' \in {netns, netns \ {b}}
    /\ chains' \in {chains, chains \ {b}}
    /\ connected' = connected \ {b}
    /\ UNCHANGED <<nextIP, setups, gpuVars>>

-----------------------------------------------------------------------------
(* GPUManager *)

Allocated == UNION {allocs[b] : b \in NetBoxes}
Available == (1..GPUDevices) \ Allocated
FirstOf(S, n) == {i \in S : Cardinality({j \in S : j <= i}) <= n}

\* Nothing changes if there are too few.
AllocateGPUs(b, n) ==
    /\ uses[b] = {} /\ n <= Cardinality(Available)
    /\ allocs' = [allocs EXCEPT ![b] = FirstOf(Available, n)]
    /\ uses' = [uses EXCEPT ![b] = FirstOf(Available, n)]
    /\ UNCHANGED netVars

ReleaseGPUs(b) ==
    /\ uses[b] # {}
    /\ allocs' = [allocs EXCEPT ![b] = {}]
    /\ uses' = [uses EXCEPT ![b] = {}]
    /\ UNCHANGED netVars

-----------------------------------------------------------------------------
DevicesNext ==
    \E b \in NetBoxes :
        \/ SetupNetwork(b) \/ TeardownNetwork(b)
        \/ \E n \in 1..GPUDevices : AllocateGPUs(b, n)
        \/ ReleaseGPUs(b)

DevicesSpec == DevicesInit /\ [][DevicesNext]_deviceVars

-----------------------------------------------------------------------------
\* The sandboxes with a network, and only they, have an address each, after any
\* order of setups that fail half-way and of teardowns; none has another's.
AddressPerSandbox ==
    /\ {a[2] : a \in allocations} = connected
    /\ \A a, c \in allocations : a[1] = c[1] \/ a[2] = c[2] => a = c

\* Two sandboxes never use the same GPU, and what they do not use can be had.
GPUExclusive ==
    /\ \A b, c \in NetBoxes : b # c => uses[b] \cap uses[c] = {}
    /\ Allocated = UNION {uses[b] : b \in NetBoxes}

-----------------------------------------------------------------------------
(* The traffic shaper *)

CONSTANTS
    Rates,      \* rates asked for; 0 is no limit
    Kilo        \* 1000 in the code: bits in a kilobit, kilobits in a megabit

ASSUME ShaperAssumption == Rates \subseteq Nat /\ Kilo \in Nat \ {0, 1}

VARIABLES
    limit,      \* activeLimits of the interface; both 0 for no entry
    egressQ,    \* root qdisc: none, bare (a qdisc without its class or filter), or its rate
    ingressQ,   \* ingress qdisc, in the same way
    clean       \* history: the last call returned no error and every delete worked

shaperVars == <<limit, egressQ, ingressQ, clean>>

None == [state |-> "none", rate |-> 0]
Bare == [state |-> "bare", rate |-> 0]

formatRate(bps) ==
    LET unit == IF bps >= Kilo * Kilo * Kilo THEN Kilo * Kilo * Kilo
                ELSE IF bps >= Kilo * Kilo THEN Kilo * Kilo
                ELSE IF bps >= Kilo THEN Kilo ELSE 1
    IN (bps \div unit) * unit

ShaperInit == limit = [i |-> 0, e |-> 0] /\ egressQ = None /\ ingressQ = None /\ clean = TRUE

\* applyEgressLimitLocked, applyIngressLimitLocked: delete what is there, add
\* the qdisc, its class and its filter.
applied(bps) == [state |-> "full", rate |-> formatRate(bps)]

\* They stop at the command that fails; if it was the delete, "add" fails too.
broken(q) == {q, None, Bare}

\* A limit of 0 in one direction leaves the rules of that direction alone.
ApplyLimit(i, e) ==
    /\ i # 0 \/ e # 0
    /\ egressQ' = IF e > 0 THEN applied(e) ELSE egressQ
    /\ ingressQ' = IF i > 0 THEN applied(i) ELSE ingressQ
    /\ limit' = [i |-> i, e |-> e] /\ clean' = TRUE

\* The egress rules fail, or the ingress rules do after the egress rules are in
\* place: neither is undone, and activeLimits stays.
ApplyLimitFails(i, e) ==
    /\ i # 0 \/ e # 0
    /\ \/ /\ e > 0 /\ egressQ' \in broken(egressQ)
          /\ UNCHANGED ingressQ
       \/ /\ i > 0 /\ ingressQ' \in broken(ingressQ)
          /\ egressQ' = IF e > 0 THEN applied(e) ELSE egressQ
    /\ clean' = FALSE /\ UNCHANGED limit

\* RemoveLimit, and ApplyLimit with both limits 0.  A delete that fails is taken
\* for one that had nothing to delete.
removeLimitLocked ==
    /\ egressQ' \in {None, egressQ} /\ ingressQ' \in {None, ingressQ}
    /\ limit' = [i |-> 0, e |-> 0]
    /\ clean' = (egressQ' = None /\ ingressQ' = None)

ShaperNext ==
    \/ \E i, e \in Rates : ApplyLimit(i, e) \/ ApplyLimitFails(i, e)
    \/ removeLimitLocked

ShaperSpec == ShaperInit /\ [][ShaperNext]_shaperVars

-----------------------------------------------------------------------------
\* After a call that returned no error, each limit on record is on the
\* interface, never above what was asked for and above half of it.
LimitOnInterface ==
    LET Holds(q, bps) == bps > 0 => q.state = "full" /\ q.rate <= bps /\ 2 * q.rate > bps IN
    clean => Holds(egressQ, limit.e) /\ Holds(ingressQ, limit.i)

\* What a sandbox has of the node is its own and what the tables say: addresses,
\* GPUs and bandwidth, after any failure half-way.
DevicesSafe == AddressPerSandbox /\ GPUExclusive /\ LimitOnInterface
=============================================================================
