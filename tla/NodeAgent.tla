----------------------------- MODULE NodeAgent -----------------------------
(***************************************************************************)
(* The agent of a node (pkg/agent/agent.go) with what it keeps for each    *)
(* sandbox elsewhere: the path whitelist, the limits and disk watcher of   *)
(* the resource manager (pkg/security/resource), the log stream of the     *)
(* collector (pkg/logging) and the record of the file store                *)
(* (pkg/store/filestore), which a crash loses back to the last flush.      *)
(*                                                                         *)
(* a.mu guards the two maps of the agent.  The goroutine of DeleteSandbox  *)
(* works on the other four under their own locks, so CreateSandbox, which  *)
(* holds a.mu all along, is several steps here.  The store, the log and    *)
(* the whitelist never fail (the path is absolute); a write of the state   *)
(* file may.  Ages are left out: a sandbox in one of the states that the   *)
(* cleanup loop looks at may be old enough for it.                         *)
(***************************************************************************)
EXTENDS Integers, Sequences, FiniteSets

CONSTANTS
    Keys,        \* namespace/name of the sandboxes
    Names,       \* their names
    NameOf,      \* the name in a key
    Quotas,      \* the keys whose sandboxes have a disk quota
    MaxObjects,  \* bound on the sandboxes created
    MaxDeletes   \* bound on the goroutines of DeleteSandbox for a sandbox

ASSUME NameAssumption == NameOf \in [Keys -> Names]
ASSUME QuotaAssumption == Quotas \subseteq Keys
ASSUME AgentBounds == MaxObjects \in Nat /\ MaxDeletes \in Nat

VARIABLES
    objects,     \* the LocalSandboxes made: key and state; history: deleted, persisted
    sandboxes,   \* a.sandboxes, by number; 0 is none
    whitelists,  \* a.filesystemSandboxs: the sandbox each was made for
    limits,      \* keys with limits
    watchers,    \* resourceManager.watchers: the sandbox each was started for
    watching,    \* the watchers whose stopCh is open
    writers,     \* names with an open log stream
    stored,      \* fileStore.data: the sandbox under each name
    disk,        \* state.json, or Torn
    flushing,    \* Flush is writing
    creating,    \* what CreateSandbox does next: "idle" outside it
    starts,      \* goroutines of CreateSandbox that sleep: sandboxes
    stops,       \* and those of StopSandbox
    deletes      \* for each sandbox and next step, how many of DeleteSandbox

agentVars == <<objects, sandboxes, whitelists, creating>>
limitVars == <<limits, watchers, watching>>
storeVars == <<stored, disk, flushing>>
goVars == <<starts, stops, deletes>>
vars == <<agentVars, limitVars, storeVars, goVars, writers>>

States == {"creating", "running", "stopping", "stopped", "deleting", "gone"}
LocalSandbox == [key : Keys, state : States, deleted : BOOLEAN, persisted : BOOLEAN]
Steps == {"maps", "limits", "log", "store"}
NoRecords == [n \in Names |-> 0]
NoDeletes == [o \in 1..MaxObjects |-> [pc \in Steps |-> 0]]
Torn == [n \in Names |-> -1]

Objects == 1..Len(objects)
New == Len(objects)
Managed == {k \in Keys : sandboxes[k] # 0}
Name(o) == NameOf[objects[o].key]
Unlocked == creating = "idle"

AgentInit ==
    /\ objects = <<>>
    /\ sandboxes = [k \in Keys |-> 0]
    /\ whitelists = [k \in Keys |-> 0]
    /\ limits = {}
    /\ watchers = [k \in Keys |-> 0]
    /\ watching = {}
    /\ writers = {}
    /\ stored = NoRecords
    /\ disk = NoRecords
    /\ flushing = FALSE
    /\ creating = "idle"
    /\ starts = {} /\ stops = {} /\ deletes = NoDeletes

-----------------------------------------------------------------------------
(* CreateSandbox *)

\* A watcher that the key still has is overwritten, and left running.
ApplyLimits(k) ==
    /\ limits' = limits \cup {k}
    /\ IF k \in Quotas
       THEN /\ watchers' = [watchers EXCEPT ![k] = New]
            /\ watching' = watching \cup {New}
       ELSE UNCHANGED <<watchers, watching>>

\* The whitelist replaces one that the key may have from before.
CreateSandbox(k) ==
    /\ Unlocked
    /\ sandboxes[k] = 0
    /\ New < MaxObjects
    /\ objects' = Append(objects, [key |-> k, state |-> "creating", deleted |-> FALSE,
                                   persisted |-> FALSE])
    /\ sandboxes' = [sandboxes EXCEPT ![k] = New + 1]
    /\ whitelists' = [whitelists EXCEPT ![k] = New + 1]
    /\ creating' = "limits"
    /\ UNCHANGED <<limitVars, storeVars, goVars, writers>>

createLimits ==
    /\ creating = "limits"
    /\ ApplyLimits(objects[New].key)
    /\ creating' = "store"
    /\ UNCHANGED <<objects, sandboxes, whitelists, storeVars, goVars, writers>>

\* s.mu is free unless a flush is writing.
createStore ==
    /\ creating = "store"
    /\ ~ flushing
    /\ stored' = [stored EXCEPT ![Name(New)] = New]
    /\ creating' = "log"
    /\ UNCHANGED <<objects, sandboxes, whitelists, limitVars, disk, flushing, goVars, writers>>

\* An open stream of the name is shared.  The goroutine is started and a.mu released.
createLog ==
    /\ creating = "log"
    /\ writers' = writers \cup {Name(New)}
    /\ starts' = starts \cup {New}
    /\ creating' = "idle"
    /\ UNCHANGED <<objects, sandboxes, whitelists, limitVars, storeVars, stops, deletes>>

SetState(o, state) == objects' = [objects EXCEPT ![o].state = state]

\* After its sleep, whatever has happened to the sandbox in between.
startEnds(o) ==
    /\ o \in starts
    /\ SetState(o, "running")
    /\ starts' = starts \ {o}
    /\ UNCHANGED <<sandboxes, whitelists, creating, limitVars, storeVars, stops, deletes,
                   writers>>

-----------------------------------------------------------------------------
(* StopSandbox and DeleteSandbox *)

\* A second call while the goroutine of a first one sleeps is left out.
StopSandbox(k) ==
    /\ Unlocked
    /\ k \in Managed
    /\ sandboxes[k] \notin stops
    /\ SetState(sandboxes[k], "stopping")
    /\ stops' = stops \cup {sandboxes[k]}
    /\ UNCHANGED <<sandboxes, whitelists, creating, limitVars, storeVars, starts, deletes,
                   writers>>

stopEnds(o) ==
    /\ o \in stops
    /\ SetState(o, "stopped")
    /\ stops' = stops \ {o}
    /\ UNCHANGED <<sandboxes, whitelists, creating, limitVars, storeVars, starts, deletes,
                   writers>>

DeleteSandbox(k) ==
    /\ Unlocked
    /\ k \in Managed
    /\ deletes[sandboxes[k]].maps < MaxDeletes
    /\ objects' = [objects EXCEPT ![sandboxes[k]].state = "deleting",
                                  ![sandboxes[k]].deleted = TRUE]
    /\ deletes' = [deletes EXCEPT ![sandboxes[k]].maps = @ + 1]
    /\ UNCHANGED <<sandboxes, whitelists, creating, limitVars, storeVars, starts, stops,
                   writers>>

GoesOn(o, from, to) == deletes' = [deletes EXCEPT ![o][from] = @ - 1, ![o][to] = @ + 1]

\* Mutant: only a sandbox that is still marked is taken out of the maps.
deleteMapsIfMarked(o) ==
    LET k == objects[o].key IN
    /\ deletes[o].maps > 0
    /\ Unlocked
    /\ IF objects[o].state = "deleting"
       THEN /\ sandboxes' = [sandboxes EXCEPT ![k] = 0]
            /\ whitelists' = [whitelists EXCEPT ![k] = 0]
       ELSE UNCHANGED <<sandboxes, whitelists>>
    /\ GoesOn(o, "maps", "limits")
    /\ UNCHANGED <<objects, creating, limitVars, storeVars, starts, stops, writers>>

\* The key is taken out, whichever sandbox it has by now.
deleteMaps(o) ==
    LET k == objects[o].key IN
    /\ deletes[o].maps > 0
    /\ Unlocked
    /\ sandboxes' = [sandboxes EXCEPT ![k] = 0]
    /\ whitelists' = [whitelists EXCEPT ![k] = 0]
    /\ GoesOn(o, "maps", "limits")
    /\ UNCHANGED <<objects, creating, limitVars, storeVars, starts, stops, writers>>

RemoveLimits(k) ==
    /\ limits' = limits \ {k}
    /\ watching' = watching \ {watchers[k]}
    /\ watchers' = [watchers EXCEPT ![k] = 0]

deleteLimits(o) ==
    /\ deletes[o].limits > 0
    /\ RemoveLimits(objects[o].key)
    /\ GoesOn(o, "limits", "log")
    /\ UNCHANGED <<agentVars, storeVars, starts, stops, writers>>

\* Close; the flush of the log index changes nothing here.
deleteLog(o) ==
    /\ deletes[o].log > 0
    /\ writers' = writers \ {Name(o)}
    /\ GoesOn(o, "log", "store")
    /\ UNCHANGED <<agentVars, limitVars, storeVars, starts, stops>>

deleteStore(o) ==
    /\ deletes[o].store > 0
    /\ ~ flushing
    /\ stored' = [stored EXCEPT ![Name(o)] = 0]
    /\ deletes' = [deletes EXCEPT ![o].store = @ - 1]
    /\ UNCHANGED <<agentVars, limitVars, disk, flushing, starts, stops, writers>>

-----------------------------------------------------------------------------
(* Background loops, shutdown and restart *)

\* Taken out of the map; what else the agent keeps for the sandbox stays.
cleanupStaleSandboxes ==
    /\ Unlocked
    /\ \E stale \in SUBSET {k \in Managed : objects[sandboxes[k]].state
                                               \in {"creating", "stopping", "deleting"}} :
          /\ stale # {}
          /\ sandboxes' = [k \in Keys |-> IF k \in stale THEN 0 ELSE sandboxes[k]]
    /\ UNCHANGED <<objects, whitelists, creating, limitVars, storeVars, goVars, writers>>

\* Mutant: the state file is written in place.
flushStartsInPlace ==
    /\ ~ flushing
    /\ flushing' = TRUE
    /\ disk' = Torn
    /\ UNCHANGED <<stored, agentVars, limitVars, goVars, writers>>

\* Flush holds s.mu for reading while it writes a temporary file.
flushStarts ==
    /\ ~ flushing
    /\ flushing' = TRUE
    /\ UNCHANGED <<stored, disk, agentVars, limitVars, goVars, writers>>

\* The rename; or the write has failed.
flushEnds ==
    /\ flushing
    /\ flushing' = FALSE
    /\ \/ /\ disk' = stored
          /\ objects' = [o \in DOMAIN objects |->
                [objects[o] EXCEPT !.persisted = @ \/ stored[Name(o)] = o]]
       \/ UNCHANGED <<disk, objects>>
    /\ UNCHANGED <<stored, sandboxes, whitelists, creating, limitVars, goVars, writers>>

\* The process ends, after Stop or in the middle of anything, and NewAgent runs:
\* the store is loaded, and starts fresh when the file cannot be read.  Stop ends
\* the loops without a flush, so that it leaves no more behind than a crash.
Restart ==
    /\ sandboxes' = [k \in Keys |-> 0]
    /\ whitelists' = [k \in Keys |-> 0]
    /\ limits' = {} /\ watchers' = [k \in Keys |-> 0] /\ watching' = {}
    /\ writers' = {}
    /\ stored' = IF disk = Torn THEN NoRecords ELSE disk
    /\ flushing' = FALSE
    /\ creating' = "idle"
    /\ starts' = {} /\ stops' = {} /\ deletes' = NoDeletes
    /\ objects' = [o \in Objects |-> [objects[o] EXCEPT !.state = "gone"]]
    /\ UNCHANGED disk

Create == createLimits \/ createStore \/ createLog
Delete(o) == deleteMaps(o) \/ deleteLimits(o) \/ deleteLog(o) \/ deleteStore(o)
Flush == flushStarts \/ flushEnds

AgentNext ==
    \/ \E k \in Keys : CreateSandbox(k) \/ StopSandbox(k) \/ DeleteSandbox(k)
    \/ Create
    \/ \E o \in Objects : startEnds(o) \/ stopEnds(o) \/ Delete(o)
    \/ cleanupStaleSandboxes
    \/ Flush
    \/ Restart

AgentSpec == AgentInit /\ [][AgentNext]_vars

\* Goroutines that were started run on, and calls under way return: a flush does
\* not keep CreateSandbox from s.mu for ever, since an RWMutex admits no new reader
\* while a writer waits.
FairAgentSpec ==
    /\ AgentSpec
    /\ SF_vars(Create) /\ WF_vars(flushEnds)
    /\ \A o \in 1..MaxObjects : WF_vars(o \in Objects /\ Delete(o))

-----------------------------------------------------------------------------
(* Properties *)

\* Every map of the agent and of its collaborators keeps its type.
AgentTypeOK ==
    /\ objects \in Seq(LocalSandbox)
    /\ sandboxes \in [Keys -> Objects \cup {0}]
    /\ whitelists \in [Keys -> Objects \cup {0}]
    /\ limits \subseteq Keys
    /\ watchers \in [Keys -> Objects \cup {0}]
    /\ watching \subseteq Objects
    /\ writers \subseteq Names
    /\ stored \in [Names -> Objects \cup {0}]
    /\ disk \in [Names -> Objects \cup {0}]
    /\ flushing \in BOOLEAN
    /\ creating \in {"idle", "limits", "store", "log"}
    /\ starts \subseteq Objects
    /\ stops \subseteq Objects
    /\ deletes \in [1..MaxObjects -> [Steps -> Nat]]

\* A sandbox of the node has its own path whitelist, never one of an earlier
\* sandbox of its key, however creations, late deletions and the cleanup loop
\* follow each other.
OwnWhitelist == \A k \in Managed : whitelists[k] = sandboxes[k]

\* RemoveLimits closes the stopCh of every watcher it finds, and closing one twice
\* would end the agent: a watcher that is registered is open.
WatcherOpen == \A k \in Keys : watchers[k] # 0 => watchers[k] \in watching

OnlyOfItsName(o) == \A p \in Objects : Name(p) = Name(o) => p = o

\* A sandbox whose name is used once has its limits, its log and its record from
\* the end of CreateSandbox until it is deleted, whatever else is stopped, deleted,
\* cleaned up or flushed meanwhile.
EquippedUntilDeleted ==
    \A k \in Managed :
        LET o == sandboxes[k] IN
        OnlyOfItsName(o) /\ ~ objects[o].deleted /\ (Unlocked \/ o # New) =>
            /\ k \in limits
            /\ NameOf[k] \in writers
            /\ stored[NameOf[k]] = o

\* What a flush has persisted is found again after any crash, one in the middle of
\* another flush included, until it is deleted ("crash-safe state recovery").
Durable ==
    \A o \in Objects :
        objects[o].persisted /\ ~ objects[o].deleted /\ OnlyOfItsName(o) => stored[Name(o)] = o

OnNode(o) == \E k \in Keys : sandboxes[k] = o

\* A sandbox that DeleteSandbox was called for leaves the node, also when a late
\* goroutine of its creation or stop has marked it running or stopped again.
DeletionEnds ==
    \A o \in 1..MaxObjects : (OnNode(o) /\ objects[o].deleted) ~> ~ OnNode(o)

\* What the agent keeps for a sandbox while the goroutines of its creation, stop and
\* deletion, the cleanup loop, the flushes and crashes interleave.
AgentSafe ==
    /\ AgentTypeOK
    /\ OwnWhitelist
    /\ WatcherOpen
    /\ EquippedUntilDeleted
    /\ Durable
=============================================================================
