----------------------------- MODULE HotReload -----------------------------
(***************************************************************************)
(* The configuration watcher (pkg/config/hotreload.go) with one watched    *)
(* file.  A version of the file is a number, which is its modification     *)
(* time too: two versions are taken to have different times.  Start        *)
(* releases w.mu before it adds to the wait group; a tick of the polling   *)
(* goroutine looks at the file, reads it and calls the reloaders, one step *)
(* after the other, while the file may be replaced (SaveJSON) or removed.  *)
(***************************************************************************)
EXTENDS Integers

CONSTANTS
    Reloaders,
    MaxConfig,  \* bound on the versions of the file
    BadConfigs  \* versions that do not parse, such as a half-written file

ASSUME ReloadAssumption == MaxConfig \in Nat /\ BadConfigs \subseteq 1..MaxConfig

VARIABLES
    disk,    \* the version on disk, 0 when there is no file
    saved,   \* the last version saved
    seen,    \* w.files[path], 0 for the zero time
    poll,    \* the polling goroutine: none, select, stat, read, reload, over
    cfg,     \* the version the tick has read
    pending, \* the reloaders it still has to call
    applied, \* per reloader, the version in effect, 0 for the initial one
    refused, \* per reloader, the last version it has rejected
    starting,\* Start: no, locked (started is set), returned
    stopping,\* Stop: no, waiting, returned
    inTime,  \* history: Stop was called when Start had returned
    lost     \* history: a read has failed since the file was last saved

reloadVars == <<disk, saved, seen, poll, cfg, pending, applied, refused, starting, stopping, inTime, lost>>

\* NewWatcher, AddFile and Register; the components run with a configuration
\* that is version 1 on disk, or with none.
ReloadInit ==
    /\ disk \in {0, 1} /\ saved = disk /\ seen = disk
    /\ poll = "none" /\ cfg = 0 /\ pending = {}
    /\ applied = [r \in Reloaders |-> disk]
    /\ refused = [r \in Reloaders |-> 0]
    /\ starting = "no" /\ stopping = "no" /\ inTime = FALSE
    /\ lost = FALSE

-----------------------------------------------------------------------------
(* Start and Stop *)

StartLocked ==
    /\ starting = "no" /\ stopping = "no"
    /\ starting' = "locked"
    /\ UNCHANGED <<disk, saved, seen, poll, cfg, pending, applied, refused, stopping, inTime, lost>>

\* wg.Add(1) and the go statement, after the unlock.
StartReturns ==
    /\ starting = "locked"
    /\ starting' = "returned" /\ poll' = "select"
    /\ UNCHANGED <<disk, saved, seen, cfg, pending, applied, refused, stopping, inTime, lost>>

StopWatcher ==
    /\ stopping = "no"
    /\ stopping' = "waiting" /\ inTime' = (starting # "locked")
    /\ UNCHANGED <<disk, saved, seen, poll, cfg, pending, applied, refused, starting, lost>>

\* Mutant: Stop closes the channel and returns.
WaitNot ==
    /\ stopping = "waiting"
    /\ stopping' = "returned"
    /\ UNCHANGED <<disk, saved, seen, poll, cfg, pending, applied, refused, starting, inTime, lost>>

\* wg.Wait: nothing was added, or the goroutine has ended.
WaitReturns ==
    /\ stopping = "waiting" /\ poll \in {"none", "over"}
    /\ stopping' = "returned"
    /\ UNCHANGED <<disk, saved, seen, poll, cfg, pending, applied, refused, starting, inTime, lost>>

-----------------------------------------------------------------------------
(* The polling goroutine *)

\* stopCh is closed; with the ticker ready as well, select takes either.
PollEnds ==
    /\ poll = "select" /\ stopping # "no"
    /\ poll' = "over"
    /\ UNCHANGED <<disk, saved, seen, cfg, pending, applied, refused, starting, stopping, inTime, lost>>

\* tick: os.Stat of the file.
Tick ==
    /\ poll = "select" /\ disk # 0
    /\ poll' = IF seen = 0 \/ disk # seen THEN "read" ELSE "select"
    /\ seen' = disk
    /\ UNCHANGED <<disk, saved, cfg, pending, applied, refused, starting, stopping, inTime, lost>>

\* os.ReadFile of what is there by now, and parse.
ReadConfig ==
    /\ poll = "read" /\ disk # 0
    /\ cfg' = disk
    /\ poll' = IF disk \in BadConfigs THEN "select" ELSE "reload"
    /\ pending' = IF disk \in BadConfigs THEN {} ELSE Reloaders
    /\ UNCHANGED <<disk, saved, seen, applied, refused, starting, stopping, inTime, lost>>

\* The file cannot be read: the change is not looked at again.
ReadFails ==
    /\ poll = "read"
    /\ poll' = "select" /\ lost' = TRUE
    /\ UNCHANGED <<disk, saved, seen, cfg, pending, applied, refused, starting, stopping, inTime>>

\* Reload of one reloader, which applies the configuration or rejects it and
\* keeps its own.
Reload(r, ok) ==
    /\ poll = "reload" /\ r \in pending
    /\ applied' = IF ok THEN [applied EXCEPT ![r] = cfg] ELSE applied
    /\ refused' = IF ok THEN refused ELSE [refused EXCEPT ![r] = cfg]
    /\ pending' = pending \ {r}
    /\ UNCHANGED <<disk, saved, seen, poll, cfg, starting, stopping, inTime, lost>>

TickEnds ==
    /\ poll = "reload" /\ pending = {}
    /\ poll' = "select"
    /\ UNCHANGED <<disk, saved, seen, cfg, pending, applied, refused, starting, stopping, inTime, lost>>

-----------------------------------------------------------------------------
(* The file *)

\* SaveJSON: a temporary file is renamed.
SaveJSON ==
    /\ saved < MaxConfig
    /\ saved' = saved + 1 /\ disk' = saved + 1 /\ lost' = FALSE
    /\ UNCHANGED <<seen, poll, cfg, pending, applied, refused, starting, stopping, inTime>>

RemoveConfig ==
    /\ disk # 0 /\ saved < MaxConfig
    /\ disk' = 0
    /\ UNCHANGED <<saved, seen, poll, cfg, pending, applied, refused, starting, stopping, inTime, lost>>

Poll ==
    \/ PollEnds \/ Tick \/ ReadConfig \/ ReadFails \/ TickEnds
    \/ \E r \in Reloaders, ok \in BOOLEAN : Reload(r, ok)

ReloadNext ==
    \/ StartLocked \/ StartReturns \/ StopWatcher \/ WaitReturns
    \/ Poll
    \/ SaveJSON \/ RemoveConfig

ReloadSpec == ReloadInit /\ [][ReloadNext]_reloadVars

\* The callers of Start and Stop and the goroutine go on, the ticker ticks,
\* and a read of a file that is there may fail but does not have to;
\* select takes every ready case in turn.
ReloadFairness ==
    /\ WF_reloadVars(StartReturns)
    /\ WF_reloadVars(PollEnds \/ Tick \/ ReadConfig \/ (disk = 0 /\ ReadFails) \/ TickEnds)
    /\ WF_reloadVars(\E r \in Reloaders, ok \in BOOLEAN : Reload(r, ok))
    /\ SF_reloadVars(PollEnds)
    /\ WF_reloadVars(WaitReturns)

-----------------------------------------------------------------------------
(* Properties *)

\* No reloader goes back to an older configuration, however saves, ticks and
\* rejections interleave; and none takes one that does not parse.
NeverOlder ==
    [][\A r \in Reloaders : applied'[r] >= applied[r] /\ (applied'[r] # applied[r] => applied'[r] \notin BadConfigs)]_reloadVars

\* Stop "waits for the polling goroutine to exit": when it has returned, no
\* reloader is called any more, if Start was not still on its way when Stop
\* was called.
StoppedQuiet ==
    (stopping = "returned" /\ inTime) => poll \in {"none", "over"}

\* While the watcher runs, the last configuration that was saved comes into
\* effect everywhere, unless it does not parse, a reloader rejects it, it
\* cannot be read or is removed.
Converges ==
    <>[]((starting = "returned" /\ stopping = "no" /\ disk # 0 /\ disk \notin BadConfigs /\ ~ lost)
            => \A r \in Reloaders : applied[r] = disk \/ refused[r] = disk)

\* Stop returns.
ReloaderStops == (stopping = "waiting") ~> (stopping = "returned")
=============================================================================
