------------------------------ MODULE DevTools ------------------------------
(***************************************************************************)
(* The dev tool manager (pkg/devtool/manager.go, launcher.go), as it is    *)
(* called by the gateway's dev tool service and by the runtime manager.    *)
(* Start and Stop release m.mu between their steps; every instance has a   *)
(* monitor goroutine, and one that waits for its process once the tool was *)
(* reached.  Instances are named by the order of their launch.  The tools  *)
(* themselves and the host's ports are external.                           *)
(***************************************************************************)
EXTENDS Integers, Sequences, FiniteSets

CONSTANTS
    Sandboxes,    \* sandbox IDs
    ToolClients,  \* callers of Start, Stop and StopAll
    minPort, maxPort, \* portRange: min..max-1
    MaxTools      \* bound on the tools that are launched

ASSUME DevToolAssumption ==
    /\ IsFiniteSet(ToolClients)
    /\ minPort \in Nat /\ maxPort \in Nat /\ minPort < maxPort
    /\ MaxTools \in Nat

VARIABLES
    tools,      \* the DevToolInstance objects, in the order of their launch
    instances,  \* m.instances
    sandboxMap, \* m.sandboxMap
    usedPorts,  \* m.usedPorts
    nextPort,   \* m.nextPort
    call        \* per client, the call it is in

toolVars == <<tools, instances, sandboxMap, usedPorts, nextPort, call>>

Ports == minPort..(maxPort - 1)
ToolIds == 1..MaxTools
Launched == DOMAIN tools

NoCall == [op |-> "none", sandbox |-> "none", port |-> 0, id |-> 0, rest |-> {}]

DevToolInit ==
    /\ tools = <<>>
    /\ instances = {}
    /\ sandboxMap = [s \in Sandboxes |-> {}]
    /\ usedPorts = {}
    /\ nextPort = minPort
    /\ call = [c \in ToolClients |-> NoCall]

\* net.Listen succeeds: no tool of ours listens on the port.
CanListen(p) == ~ \E i \in Launched : tools[i].listening /\ tools[i].port = p

Free(p) == p \notin usedPorts /\ CanListen(p)

First(S) == CHOOSE p \in S : \A q \in S : p <= q

\* allocatePort: from nextPort on, then the ports below it.
FreeAbove == {p \in Ports : p >= nextPort /\ Free(p)}
FreeBelow == {p \in Ports : p < nextPort /\ Free(p)}

-----------------------------------------------------------------------------
(* Start *)

\* Start without a port: allocatePort, under m.mu.
StartAnyPort(c, s) ==
    /\ call[c] = NoCall
    /\ FreeAbove \cup FreeBelow # {}
    /\ LET p == IF FreeAbove # {} THEN First(FreeAbove) ELSE First(FreeBelow)
       IN  /\ usedPorts' = usedPorts \cup {p}
           /\ nextPort' = IF FreeAbove # {} THEN p + 1 ELSE nextPort
           /\ call' = [call EXCEPT ![c] = [NoCall EXCEPT !.op = "launch", !.sandbox = s, !.port = p]]
    /\ UNCHANGED <<tools, instances, sandboxMap>>

\* Start with the port of its configuration: nobody listens is not tested.
StartOnPort(c, s, p) ==
    /\ call[c] = NoCall
    /\ p \notin usedPorts
    /\ usedPorts' = usedPorts \cup {p}
    /\ call' = [call EXCEPT ![c] = [NoCall EXCEPT !.op = "launch", !.sandbox = s, !.port = p]]
    /\ UNCHANGED <<tools, instances, sandboxMap, nextPort>>

\* An unknown type, no binary, no working directory or log file, or the
\* process does not start: releasePort.
LaunchFails(c) ==
    /\ call[c].op = "launch"
    /\ usedPorts' = usedPorts \ {call[c].port}
    /\ call' = [call EXCEPT ![c] = NoCall]
    /\ UNCHANGED <<tools, instances, sandboxMap, nextPort>>

\* LaunchJupyter, LaunchCodeServer
Launch(c) ==
    /\ call[c].op = "launch"
    /\ Len(tools) < MaxTools
    /\ tools' = Append(tools, [sandbox |-> call[c].sandbox, port |-> call[c].port, status |-> "pending",
                               alive |-> TRUE, listening |-> FALSE, monitor |-> "none"])
    /\ call' = [call EXCEPT ![c].op = "register", ![c].id = Len(tools) + 1]
    /\ UNCHANGED <<instances, sandboxMap, usedPorts, nextPort>>

\* The second critical section of Start; the monitor starts.
Register(c) ==
    /\ call[c].op = "register"
    /\ instances' = instances \cup {call[c].id}
    /\ sandboxMap' = [sandboxMap EXCEPT ![call[c].sandbox] = @ \cup {call[c].id}]
    /\ tools' = [tools EXCEPT ![call[c].id].monitor = "probe"]
    /\ call' = [call EXCEPT ![c] = NoCall]
    /\ UNCHANGED <<usedPorts, nextPort>>

-----------------------------------------------------------------------------
(* Stop *)

StopCall(id, rest) == [NoCall EXCEPT !.op = "kill", !.id = id, !.rest = rest]

\* Stop of one instance: the lookup.
Stop(c, id) ==
    /\ call[c] = NoCall
    /\ id \in instances
    /\ call' = [call EXCEPT ![c] = StopCall(id, {})]
    /\ UNCHANGED <<tools, instances, sandboxMap, usedPorts, nextPort>>

\* StopAll: the IDs are read once, and then stopped one by one.
StopAll(c, s) ==
    /\ call[c] = NoCall
    /\ sandboxMap[s] # {}
    /\ call' = [call EXCEPT ![c] = [NoCall EXCEPT !.op = "stopNext", !.rest = sandboxMap[s]]]
    /\ UNCHANGED <<tools, instances, sandboxMap, usedPorts, nextPort>>

\* The next instance of StopAll; one that is gone is passed over.
StopNext(c) ==
    /\ call[c].op = "stopNext"
    /\ \/ /\ call[c].rest = {}
          /\ call' = [call EXCEPT ![c] = NoCall]
       \/ \E id \in call[c].rest :
             LET rest == call[c].rest \ {id}
             IN  call' = [call EXCEPT ![c] = IF id \in instances THEN StopCall(id, rest)
                                                                 ELSE [call[c] EXCEPT !.rest = rest]]
    /\ UNCHANGED <<tools, instances, sandboxMap, usedPorts, nextPort>>

\* Launcher.Stop.  Kill fails for a process that was waited for already.
LauncherStop(c) ==
    /\ call[c].op = "kill"
    /\ LET id == call[c].id
       IN  tools' = [tools EXCEPT ![id].alive = FALSE, ![id].listening = FALSE,
                                  ![id].status = IF tools[id].monitor \in {"release", "done"} /\ ~ tools[id].alive
                                                 THEN @ ELSE "stopped"]
    /\ call' = [call EXCEPT ![c].op = "remove"]
    /\ UNCHANGED <<instances, sandboxMap, usedPorts, nextPort>>

\* The second critical section of Stop.
StopRemove(c) ==
    /\ call[c].op = "remove"
    /\ LET id == call[c].id
       IN  /\ tools' = [tools EXCEPT ![id].status = "stopped"]
           /\ usedPorts' = usedPorts \ {tools[id].port}
           /\ instances' = instances \ {id}
           /\ sandboxMap' = [sandboxMap EXCEPT ![tools[id].sandbox] = @ \ {id}]
    /\ call' = [call EXCEPT ![c] = [NoCall EXCEPT !.op = "stopNext", !.rest = call[c].rest]]
    /\ UNCHANGED nextPort

-----------------------------------------------------------------------------
(* The monitor and the tool *)

\* Mutant: whatever is reached on the port makes the tool a running one.
ProbeMarks(i) ==
    /\ tools[i].monitor = "probe"
    /\ ~ CanListen(tools[i].port)
    /\ tools' = [tools EXCEPT ![i].status = "running", ![i].monitor = "wait"]
    /\ UNCHANGED <<instances, sandboxMap, usedPorts, nextPort, call>>

\* monitorInstance: somebody answers on the port.
Probe(i) ==
    /\ tools[i].monitor = "probe"
    /\ ~ CanListen(tools[i].port)
    /\ tools' = [tools EXCEPT ![i].status = IF @ = "pending" THEN "running" ELSE @,
                              ![i].monitor = "wait"]
    /\ UNCHANGED <<instances, sandboxMap, usedPorts, nextPort, call>>

\* monitorInstance: 30 seconds have passed.
ProbeDeadline(i) ==
    /\ tools[i].monitor = "probe"
    /\ tools' = [tools EXCEPT ![i].status = IF @ = "pending" THEN "failed" ELSE @,
                              ![i].monitor = "done"]
    /\ UNCHANGED <<instances, sandboxMap, usedPorts, nextPort, call>>

\* Launcher.Wait: the status is read without the lock ...
WaitReads(i) ==
    /\ tools[i].monitor = "wait" /\ ~ tools[i].alive
    /\ tools' = [tools EXCEPT ![i].monitor =
                    IF tools[i].status \in {"running", "pending"} THEN "write" ELSE "release"]
    /\ UNCHANGED <<instances, sandboxMap, usedPorts, nextPort, call>>

\* ... and written after it.
WaitWrites(i) ==
    /\ tools[i].monitor = "write"
    /\ \E st \in {"failed", "stopped"} :
          tools' = [tools EXCEPT ![i].status = st, ![i].monitor = "release"]
    /\ UNCHANGED <<instances, sandboxMap, usedPorts, nextPort, call>>

\* The waiting goroutine releases the port, whoever has it by now.
WaitReleases(i) ==
    /\ tools[i].monitor = "release"
    /\ usedPorts' = usedPorts \ {tools[i].port}
    /\ tools' = [tools EXCEPT ![i].monitor = "done"]
    /\ UNCHANGED <<instances, sandboxMap, nextPort, call>>

\* The tool binds its port, or fails to because another one has it.
Listen(i) ==
    /\ tools[i].alive /\ ~ tools[i].listening
    /\ tools' = [tools EXCEPT ![i].listening = CanListen(tools[i].port),
                              ![i].alive = CanListen(tools[i].port)]
    /\ UNCHANGED <<instances, sandboxMap, usedPorts, nextPort, call>>

ToolExits(i) ==
    /\ tools[i].alive
    /\ tools' = [tools EXCEPT ![i].alive = FALSE, ![i].listening = FALSE]
    /\ UNCHANGED <<instances, sandboxMap, usedPorts, nextPort, call>>

ToolCall(c) ==
    \/ \E s \in Sandboxes : StartAnyPort(c, s) \/ StopAll(c, s)
    \/ \E s \in Sandboxes, p \in Ports : StartOnPort(c, s, p)
    \/ \E id \in ToolIds : Stop(c, id)

ToolStep(c) ==
    \/ LaunchFails(c) \/ Launch(c) \/ Register(c)
    \/ StopNext(c) \/ LauncherStop(c) \/ StopRemove(c)

Monitor(i) ==
    \/ Probe(i) \/ ProbeDeadline(i)
    \/ WaitReads(i) \/ WaitWrites(i) \/ WaitReleases(i)

DevToolNext ==
    \/ \E c \in ToolClients : ToolCall(c) \/ ToolStep(c)
    \/ \E i \in ToolIds : i \in Launched /\ (Monitor(i) \/ Listen(i) \/ ToolExits(i))

DevToolSpec == DevToolInit /\ [][DevToolNext]_toolVars

\* Calls and monitor goroutines go on; tools need not answer or end.
DevToolFairness ==
    /\ \A c \in ToolClients : WF_toolVars(ToolStep(c))
    /\ \A i \in ToolIds : WF_toolVars(i \in Launched /\ Monitor(i))

-----------------------------------------------------------------------------
(* Properties *)

\* Stop of one instance, Start of another, and the two goroutines of the
\* instance in any order: one that Stop has removed has no process and is not
\* shown as running, also when its monitor reaches the next owner of the port.
RemovedIsOver ==
    \A i \in Launched : (tools[i].monitor # "none" /\ i \notin instances) =>
        ~ tools[i].alive /\ tools[i].status \in {"stopped", "failed"}

\* m.usedPorts: no port is lost.  One that is taken belongs to a start in
\* progress or to an instance that Stop will release it for; and the two maps
\* name the same instances.
NoPortLeak ==
    /\ \A p \in usedPorts :
          \/ \E c \in ToolClients : call[c].op \in {"launch", "register"} /\ call[c].port = p
          \/ \E i \in instances : tools[i].port = p
    /\ \A i \in Launched : i \in instances <=> i \in sandboxMap[tools[i].sandbox]

\* monitorInstance: no instance stays pending, whatever its tool does.
PendingResolves ==
    \A i \in ToolIds :
        (i \in Launched /\ tools[i].status = "pending")
            ~> (i \in Launched /\ tools[i].status # "pending")

\* Starts, stops and the goroutines of the instances leave neither a port taken nor
\* a removed instance alive.
ToolsSafe == RemovedIsOver /\ NoPortLeak
=============================================================================
