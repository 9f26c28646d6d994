---------------------------- MODULE NodeExecutor ----------------------------
(***************************************************************************)
(* The sandbox executor of the node agent (pkg/agent/executor.go), which   *)
(* runs the runtime binaries, and the garbage collector of bundles         *)
(* (pkg/sandbox/runtime/handle.go).  Calls share the bundle directory and  *)
(* the runtime's containers; se.mu protects the table of operations only.  *)
(* "runc spec" does not write over a config.json that is there, and the    *)
(* runtime has one container per identifier: the rest of what the binaries *)
(* do is left open.                                                        *)
(***************************************************************************)
EXTENDS Naturals, FiniteSets

CONSTANTS
    CreateCalls,           \* calls of CreateSandbox
    Stoppers,           \* calls of StopSandbox
    Containers,         \* containerID: namespace and name of the sandbox
    NoCreator,
    maxConcurrentOps

ASSUME ExecutorAssumption ==
    maxConcurrentOps \in Nat \ {0} /\ NoCreator \notin CreateCalls

VARIABLES
    activeOps,      \* se.activeOps
    creations,      \* per call: where it is and its container
    stops,          \* the same of the calls of StopSandbox
    bundle,         \* per container: no directory, an empty one, one with config.json
    specOf,         \* per bundle: the call that generated config.json
    container,      \* per container: its status in the runtime
    madeFrom        \* per container: whose config.json it was created from

executorVars == <<activeOps, creations, stops, bundle, specOf, container, madeFrom>>

NoCall == [at |-> "out", id |-> NoCreator]

ExecutorInit ==
    /\ activeOps = {}
    /\ creations = [c \in CreateCalls |-> NoCall]
    /\ stops = [s \in Stoppers |-> NoCall]
    /\ bundle = [i \in Containers |-> "none"]
    /\ specOf = [i \in Containers |-> NoCreator]
    /\ container = [i \in Containers |-> "none"]
    /\ madeFrom = [i \in Containers |-> NoCreator]

CreatorAt(c, where) == creations' = [creations EXCEPT ![c].at = where]

-----------------------------------------------------------------------------
(* CreateSandbox                                                           *)

CreateAdmitted(c, i) ==
    /\ creations[c].at = "out" /\ Cardinality(activeOps) < maxConcurrentOps
    /\ activeOps' = activeOps \cup {c}
    /\ creations' = [creations EXCEPT ![c] = [at |-> "admitted", id |-> i]]
    /\ UNCHANGED <<stops, bundle, specOf, container, madeFrom>>

\* os.MkdirAll is content with a directory that is there.
MakeBundle(c) ==
    /\ creations[c].at = "admitted"
    /\ bundle' = [bundle EXCEPT ![creations[c].id] = IF @ = "none" THEN "empty" ELSE @]
    /\ CreatorAt(c, "bundle")
    /\ UNCHANGED <<activeOps, stops, specOf, container, madeFrom>>

\* Mutant: a config.json that is there is written over.
generateOCISpecOver(c) ==
    LET i == creations[c].id IN
    /\ creations[c].at = "bundle"
    /\ bundle' = [bundle EXCEPT ![i] = "config"] /\ specOf' = [specOf EXCEPT ![i] = c]
    /\ CreatorAt(c, "spec")
    /\ UNCHANGED <<activeOps, stops, container, madeFrom>>

generateOCISpec(c) ==
    LET i == creations[c].id IN
    /\ creations[c].at = "bundle" /\ bundle[i] = "empty"
    /\ bundle' = [bundle EXCEPT ![i] = "config"] /\ specOf' = [specOf EXCEPT ![i] = c]
    /\ CreatorAt(c, "spec")
    /\ UNCHANGED <<activeOps, stops, container, madeFrom>>

\* The runtime creates the container from the bundle; the call may learn of it,
\* or be over its 120 seconds.
RuntimeCreates(c) ==
    LET i == creations[c].id IN
    /\ creations[c].at = "spec" /\ container[i] = "none" /\ bundle[i] = "config"
    /\ container' = [container EXCEPT ![i] = "created"]
    /\ madeFrom' = [madeFrom EXCEPT ![i] = specOf[i]]
    /\ \E where \in {"success", "failure"} : CreatorAt(c, where)
    /\ UNCHANGED <<activeOps, stops, bundle, specOf>>

\* An unknown runtime type, a directory that cannot be made, "runc spec" or the
\* runtime that fails: nothing that was done is undone.
CreationFails(c) ==
    /\ creations[c].at \in {"admitted", "bundle", "spec"}
    /\ CreatorAt(c, "failure")
    /\ UNCHANGED <<activeOps, stops, bundle, specOf, container, madeFrom>>

\* The deferred delete.
CreateReturns(c) ==
    /\ creations[c].at \in {"success", "failure"}
    /\ activeOps' = activeOps \ {c}
    /\ creations' = [creations EXCEPT ![c] = NoCall]
    /\ UNCHANGED <<stops, bundle, specOf, container, madeFrom>>

-----------------------------------------------------------------------------
(* The other operations, which the table does not count                    *)

Turns(i, from, to) ==
    /\ container[i] = from /\ container' = [container EXCEPT ![i] = to]
    /\ UNCHANGED <<activeOps, creations, stops, bundle, specOf, madeFrom>>

StartSandbox(i) == Turns(i, "created", "running")
PauseSandbox(i) == Turns(i, "running", "paused")
ResumeSandbox(i) == Turns(i, "paused", "running")

\* What runs in the sandbox ends by itself.
Exits(i) == Turns(i, "running", "stopped")

\* SIGTERM, a pause, SIGKILL, delete: a failure of any of them is logged and the
\* next one is run.  The process may heed a signal or not, or be gone.
StopSandbox(s, i) ==
    /\ stops[s].at = "out"
    /\ stops' = [stops EXCEPT ![s] = [at |-> "term", id |-> i]]
    /\ UNCHANGED <<activeOps, creations, bundle, specOf, container, madeFrom>>

Signal(s) ==
    LET i == stops[s].id IN
    /\ stops[s].at \in {"term", "kill"}
    /\ \/ container[i] \in {"created", "running", "paused"} /\ container' = [container EXCEPT ![i] = "stopped"]
       \/ UNCHANGED container
    /\ stops' = [stops EXCEPT ![s].at = IF @ = "term" THEN "kill" ELSE "delete"]
    /\ UNCHANGED <<activeOps, creations, bundle, specOf, madeFrom>>

\* The runtime deletes a container that stopped; the bundle stays.
DeleteContainer(s) ==
    LET i == stops[s].id IN
    /\ stops[s].at = "delete"
    /\ container' = [container EXCEPT ![i] = IF @ = "stopped" THEN "none" ELSE @]
    /\ stops' = [stops EXCEPT ![s] = NoCall]
    /\ UNCHANGED <<activeOps, creations, bundle, specOf, madeFrom>>

-----------------------------------------------------------------------------
\* The garbage collector removes what is older than maxAge, whether a container
\* runs from it or not; maxAge is longer than a creation takes.
collect(i) ==
    /\ bundle[i] # "none"
    /\ \A c \in CreateCalls : creations[c].id # i
    /\ bundle' = [bundle EXCEPT ![i] = "none"] /\ specOf' = [specOf EXCEPT ![i] = NoCreator]
    /\ UNCHANGED <<activeOps, creations, stops, container, madeFrom>>

Creates(c) ==
    \/ MakeBundle(c) \/ generateOCISpec(c) \/ RuntimeCreates(c) \/ CreationFails(c) \/ CreateReturns(c)

ExecutorNext ==
    \/ \E c \in CreateCalls : (\E i \in Containers : CreateAdmitted(c, i)) \/ Creates(c)
    \/ \E i \in Containers : StartSandbox(i) \/ PauseSandbox(i) \/ ResumeSandbox(i) \/ Exits(i) \/ collect(i)
    \/ \E s \in Stoppers : (\E i \in Containers : StopSandbox(s, i)) \/ Signal(s) \/ DeleteContainer(s)

ExecutorSpec == ExecutorInit /\ [][ExecutorNext]_executorVars

-----------------------------------------------------------------------------
\* A creation that succeeds has its container created from the config.json that
\* it generated itself, though two creations of one sandbox share the bundle and
\* a sandbox may be created, stopped and created again: at most one of the calls
\* under way gets past "runc spec".
CreateExclusive ==
    \A c \in CreateCalls :
        /\ creations[c].at \in {"spec", "success"} => specOf[creations[c].id] = c
        /\ creations[c].at = "success" /\ container[creations[c].id] # "none"
               => madeFrom[creations[c].id] = c

\* The table has the creations under way and no other, so the places of those
\* that ended in whatever way are free again, and no more than the limit.
OpsExact ==
    /\ activeOps = {c \in CreateCalls : creations[c].at # "out"}
    /\ Cardinality(activeOps) <= maxConcurrentOps

\* Creations of one sandbox do not mix their bundles up, and each gives its place in
\* the table of operations back once.
ExecutorSafe == CreateExclusive /\ OpsExact
=============================================================================
