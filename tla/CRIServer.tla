----------------------------- MODULE CRIServer ------------------------------
(***************************************************************************)
(* The runtime service of the CRI server (pkg/cri/server.go), over         *)
(* containerd as it and the containerd client                              *)
(* (pkg/runtime/containerd/client.go) use it. A handler holds the          *)
(* server's lock from its first to its last step, so there is one at a     *)
(* time; meanwhile tasks end and the caller may give up, which makes       *)
(* every later call of the handler to containerd fail.                     *)
(*                                                                         *)
(* An id is used once. A pod sandbox and a container differ only in the    *)
(* handlers that act on them. NewContainer is taken to work with the nil   *)
(* spec that it is given.                                                  *)
(***************************************************************************)
EXTENDS FiniteSets

CONSTANTS
    ContainerIds,
    Pods,   \* ids of pod sandboxes; the other ContainerIds are containers
    NoId    \* no handler

ASSUME CRIAssumption ==
    /\ Pods \subseteq ContainerIds
    /\ NoId \notin ContainerIds

VARIABLES
    daemon,     \* what containerd has
    store,      \* sandboxStore and containerStore: the State of each id there
    used,       \* history: the ids that generateID has returned
    handler,    \* the handler that has the lock, where it is, its context
    abandoned   \* history: ids for which a caller has given up

criVars == <<daemon, store, used, handler, abandoned>>

-----------------------------------------------------------------------------
(* containerd is external code.  A container may have one task; a task that *)
(* was created is started, signalled and ends, and stays until it is         *)
(* deleted.  A process that was added to the task with Exec also stays       *)
(* until it is deleted.                                                      *)

NoContainer == [there |-> FALSE, task |-> "none", signal |-> "none", exec |-> "none"]

DaemonInit == daemon = [c \in ContainerIds |-> NoContainer]

\* client.NewContainer, with an id that is free
Created(d) == [NoContainer EXCEPT !.there = TRUE]

\* container.NewTask
CanNewTask(d) == d.there /\ d.task = "none"
TaskCreated(d) == [d EXCEPT !.task = "created", !.signal = "none"]

\* task.Start
Started(d) == [d EXCEPT !.task = "running"]

\* container.Task: is there one to be had?
HasTask(d) == d.there /\ d.task # "none"

\* task.Kill of a task that has ended is an error.
CanKill(d) == d.task \in {"created", "running"}
Killed(d, s) == IF CanKill(d) /\ d.signal # "KILL" THEN [d EXCEPT !.signal = s] ELSE d

\* task.Delete: the task must have ended.
CanDeleteTask(d) == d.task = "stopped"
TaskDeleted(d) == IF CanDeleteTask(d) THEN [d EXCEPT !.task = "none", !.signal = "none", !.exec = "none"] ELSE d

\* container.Delete: there must be no task.
CanDelete(d) == d.there /\ d.task = "none"
Deleted(d) == IF CanDelete(d) THEN NoContainer ELSE d

\* task.Exec: the task runs and the id of the process is free.
CanExec(d) == d.task = "running" /\ d.exec = "none"
ExecAdded(d) == [d EXCEPT !.exec = "running"]

\* process.Delete: the process must have ended.
ExecDeleted(d) == IF d.exec = "ended" THEN [d EXCEPT !.exec = "none"] ELSE d

\* A task ends: by itself, or because of a signal.  Its processes end with it.
TaskEnds(c) ==
    /\ daemon[c].task = "running" \/ (daemon[c].task = "created" /\ daemon[c].signal = "KILL")
    /\ daemon' = [daemon EXCEPT ![c].task = "stopped",
                                ![c].exec = IF @ = "running" THEN "ended" ELSE @]

ExecEnds(c) ==
    /\ daemon[c].exec = "running"
    /\ daemon' = [daemon EXCEPT ![c].exec = "ended"]

-----------------------------------------------------------------------------
(* The server *)

NoHandler == [id |-> NoId, at |-> "idle", gone |-> FALSE]

CRIInit ==
    /\ DaemonInit
    /\ store = [c \in ContainerIds |-> "unknown"]
    /\ used = {}
    /\ handler = NoHandler
    /\ abandoned = {}

At(c, where) == handler.id = c /\ handler.at = where
Goto(where) == handler' = [handler EXCEPT !.at = where]
Return == handler' = NoHandler
Serves(c, where) == handler' = [id |-> c, at |-> where, gone |-> FALSE]

\* A call fails once the context is done.
Reached == ~ handler.gone
Put(c, d) == daemon' = [daemon EXCEPT ![c] = IF Reached THEN d ELSE @]

-----------------------------------------------------------------------------
(* RunPodSandbox, CreateContainer and StartContainer *)

\* The image is there or was pulled, and NewContainer succeeds.  A failure
\* up to here changes nothing.
NewContainer(c) ==
    /\ handler = NoHandler /\ c \notin used
    /\ used' = used \cup {c}
    /\ daemon' = [daemon EXCEPT ![c] = Created(@)]
    /\ Serves(c, IF c \in Pods THEN "podTask" ELSE "created")
    /\ UNCHANGED <<store, abandoned>>

CreateContainer(c) ==
    /\ At(c, "created")
    /\ store' = [store EXCEPT ![c] = "created"]
    /\ Return
    /\ UNCHANGED <<daemon, used, abandoned>>

PodNewTask(c) ==
    /\ At(c, "podTask") /\ Reached
    /\ daemon' = [daemon EXCEPT ![c] = TaskCreated(@)]
    /\ Goto("podStart")
    /\ UNCHANGED <<store, used, abandoned>>

PodNewTaskFails(c) ==
    /\ At(c, "podTask")
    /\ Put(c, Deleted(daemon[c]))
    /\ Return
    /\ UNCHANGED <<store, used, abandoned>>

\* RunPodSandbox ends: the sandbox is ready.
RunPodSandbox(c) ==
    /\ At(c, "podStart") /\ Reached
    /\ daemon' = [daemon EXCEPT ![c] = Started(@)]
    /\ store' = [store EXCEPT ![c] = "ready"]
    /\ Return
    /\ UNCHANGED <<used, abandoned>>

\* task.Start has failed and left the task created or stopped: task.Delete,
\* and for a pod sandbox container.Delete.
StartFails(c) ==
    /\ At(c, "podStart") \/ At(c, "start")
    /\ \E t \in {"created", "stopped"} :
          LET d == TaskDeleted([daemon[c] EXCEPT !.task = t])
          IN  daemon' = [daemon EXCEPT ![c] =
                            IF ~ Reached THEN [@ EXCEPT !.task = t]
                            ELSE IF At(c, "podStart") THEN Deleted(d) ELSE d]
    /\ Return
    /\ UNCHANGED <<store, used, abandoned>>

\* Nothing but containerd keeps a container from being started twice.
StartNewTask(c) ==
    /\ handler = NoHandler /\ c \notin Pods /\ store[c] # "unknown"
    /\ CanNewTask(daemon[c])
    /\ daemon' = [daemon EXCEPT ![c] = TaskCreated(@)]
    /\ Serves(c, "start")
    /\ UNCHANGED <<store, used, abandoned>>

StartContainer(c) ==
    /\ At(c, "start") /\ Reached
    /\ daemon' = [daemon EXCEPT ![c] = Started(@)]
    /\ store' = [store EXCEPT ![c] = "running"]
    /\ Return
    /\ UNCHANGED <<used, abandoned>>

-----------------------------------------------------------------------------
(* StopPodSandbox, StopContainer, RemovePodSandbox and RemoveContainer *)

\* The task is asked to end.  A pod sandbox is not waited for.
StopTask(c) ==
    /\ handler = NoHandler /\ store[c] # "unknown"
    /\ IF HasTask(daemon[c])
       THEN /\ daemon' = [daemon EXCEPT ![c] = Killed(@, "TERM")]
            /\ Serves(c, IF c \in Pods THEN "stop" ELSE "stopWait")
       ELSE Serves(c, "stopped") /\ UNCHANGED daemon
    /\ UNCHANGED <<store, used, abandoned>>

\* exitCh delivers: the task has ended or the context is done.
StopSeesExit(c) ==
    /\ At(c, "stopWait")
    /\ daemon[c].task = "stopped" \/ ~ Reached
    /\ Goto("stop")
    /\ UNCHANGED <<daemon, store, used, abandoned>>

\* Mutant: there is no timeout.
StopNeverTimesOut(c) == FALSE

\* The timeout passes: SIGKILL, and on without waiting.
StopTimesOut(c) ==
    /\ At(c, "stopWait")
    /\ Put(c, Killed(daemon[c], "KILL"))
    /\ Goto("stop")
    /\ UNCHANGED <<store, used, abandoned>>

\* task.Delete, which fails if the task has not ended yet.
StopDeletes(c) ==
    /\ At(c, "stop")
    /\ Put(c, TaskDeleted(daemon[c]))
    /\ Goto("stopped")
    /\ UNCHANGED <<store, used, abandoned>>

StopReturns(c) ==
    /\ At(c, "stopped")
    /\ store' = [store EXCEPT ![c] = IF c \in Pods THEN "notReady" ELSE "exited"]
    /\ Return
    /\ UNCHANGED <<daemon, used, abandoned>>

RemoveKills(c) ==
    /\ handler = NoHandler /\ store[c] # "unknown"
    /\ daemon' = [daemon EXCEPT ![c] = IF HasTask(@) THEN Killed(@, "KILL") ELSE @]
    /\ Serves(c, IF HasTask(daemon[c]) THEN "removeTask" ELSE "remove")
    /\ UNCHANGED <<store, used, abandoned>>

RemoveDeletesTask(c) ==
    /\ At(c, "removeTask")
    /\ Put(c, TaskDeleted(daemon[c]))
    /\ Goto("remove")
    /\ UNCHANGED <<store, used, abandoned>>

\* container.Delete, whose error is ignored, and the entry goes.
RemoveReturns(c) ==
    /\ At(c, "remove")
    /\ Put(c, Deleted(daemon[c]))
    /\ store' = [store EXCEPT ![c] = "unknown"]
    /\ Return
    /\ UNCHANGED <<used, abandoned>>

-----------------------------------------------------------------------------
(* ExecSync *)

ExecSync(c) ==
    /\ handler = NoHandler /\ c \notin Pods /\ store[c] # "unknown"
    /\ CanExec(daemon[c])
    /\ daemon' = [daemon EXCEPT ![c] = ExecAdded(@)]
    /\ Serves(c, "exec")
    /\ UNCHANGED <<store, used, abandoned>>

\* Mutant: the process is not deleted.
ExecReturnsOnly(c) ==
    /\ At(c, "exec")
    /\ daemon[c].exec = "ended" \/ ~ Reached
    /\ Return
    /\ UNCHANGED <<daemon, store, used, abandoned>>

\* The process has ended or the context is done: process.Delete, deferred.
ExecReturns(c) ==
    /\ At(c, "exec")
    /\ daemon[c].exec = "ended" \/ ~ Reached
    /\ Put(c, ExecDeleted(daemon[c]))
    /\ Return
    /\ UNCHANGED <<store, used, abandoned>>

-----------------------------------------------------------------------------

\* The caller of the handler gives up.
CallerGone ==
    /\ handler # NoHandler /\ Reached
    /\ handler' = [handler EXCEPT !.gone = TRUE]
    /\ abandoned' = abandoned \cup {handler.id}
    /\ UNCHANGED <<daemon, store, used>>

CRIHandler(c) ==
    \/ CreateContainer(c) \/ PodNewTask(c) \/ PodNewTaskFails(c) \/ RunPodSandbox(c)
    \/ StartFails(c) \/ StartContainer(c)
    \/ StopSeesExit(c) \/ StopTimesOut(c) \/ StopDeletes(c) \/ StopReturns(c)
    \/ RemoveDeletesTask(c) \/ RemoveReturns(c) \/ ExecReturns(c)

CRIRequest(c) == NewContainer(c) \/ StartNewTask(c) \/ StopTask(c) \/ RemoveKills(c) \/ ExecSync(c)

DaemonStep(c) == (TaskEnds(c) \/ ExecEnds(c)) /\ UNCHANGED <<store, used, handler, abandoned>>

CRINext ==
    \/ \E c \in ContainerIds : CRIHandler(c) \/ CRIRequest(c) \/ DaemonStep(c)
    \/ CallerGone

CRISpec == CRIInit /\ [][CRINext]_criVars

\* A handler goes on, and the timeout of StopContainer passes; no process
\* need ever end, except for one that is killed.
CRIFairness ==
    /\ \A c \in ContainerIds : WF_criVars(CRIHandler(c))
    /\ \A c \in ContainerIds :
          WF_criVars(daemon[c].signal = "KILL" /\ DaemonStep(c))

-----------------------------------------------------------------------------
(* Properties *)

\* What the server lists exists in containerd: no failure or abandoned call
\* takes the container away and leaves its entry, on which every later call
\* would fail.
ListedExists ==
    \A c \in ContainerIds : store[c] # "unknown" /\ handler.id # c => daemon[c].there

\* A container that no entry and no handler knows can only be left by a
\* caller that gave up, or because its task had not ended when it was to be
\* deleted: the failures that the handlers deal with leave nothing.
LeftWithTask ==
    \A c \in ContainerIds :
        daemon[c].there /\ store[c] = "unknown" /\ handler.id # c =>
            daemon[c].task # "none" \/ c \in abandoned

\* ExecSync names every process of a container alike.  The name is free
\* again after the call, unless the caller gave up: then no command can be
\* run in the container any more.
ExecNameFree ==
    \A c \in ContainerIds :
        daemon[c].exec # "none" => At(c, "exec") \/ c \in abandoned

\* Every handler returns, and with it the lock, unless a command runs on:
\* neither a task that ignores SIGTERM nor containerd's refusals block it.
LockReturned ==
    \A c \in ContainerIds : (handler.id = c) ~> (handler.id # c \/ daemon[c].exec = "running")

\* The server's store and containerd agree after every failure of a handler, and a
\* container can be worked with again.
CRISafe == ListedExists /\ LeftWithTask /\ ExecNameFree
=============================================================================
