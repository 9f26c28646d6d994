--------------------------- MODULE StateRecovery ---------------------------
(***************************************************************************)
(* The etcd store (pkg/store/etcd/store.go) and the two managers that read *)
(* a record from it, work for a while, and write the whole record back:    *)
(* state recovery (pkg/ha/recovery/recovery.go) and migration              *)
(* (pkg/migration/manager.go, with the snapshots it makes).  Other writers *)
(* of the store, such as agents with their heartbeats, act in between.     *)
(* etcd is external; every write is a Put without a condition.             *)
(***************************************************************************)
EXTENDS Integers, FiniteSets

CONSTANTS
    Boxes,     \* sandboxes
    Hosts,     \* nodes
    NoRecord,
    Movers,    \* callers of MigrateSandbox
    MaxPuts    \* bound on what the other writers put and delete

NodePhases == {"Running", "NotReady"}

ASSUME RecoveryAssumption ==
    /\ NoRecord \notin Boxes \cup Hosts \cup NodePhases
    /\ Boxes \cap Hosts = {} /\ MaxPuts \in Nat

VARIABLES
    boxes,     \* etcd: the sandbox records
    hosts,     \* etcd: the phase of the node records
    recovery,  \* RecoverAll: where it is, and what it has listed
    migrating, \* mm.migrating: phase of the migration of a sandbox
    mover,     \* per caller of MigrateSandbox, how far it is
    checkpoints, \* snapshots that were made and not deleted
    puts,
    since      \* history: the records others have written since RecoverAll
               \* has listed them, and those that it could not write

recoveryVars == <<boxes, hosts, recovery, migrating, mover, checkpoints, puts, since>>

NotRecovering == [at |-> "off", left |-> {}, boxes |-> [b \in Boxes |-> NoRecord], hosts |-> [h \in Hosts |-> NoRecord]]
NoMove == [at |-> "none", box |-> NoRecord, to |-> NoRecord, read |-> NoRecord]

\* The record of a sandbox: the node, the phase, whether a runtime ID is known
\* and, in the phase Creating, whether five minutes have passed.
RecoveryInit ==
    /\ boxes \in [Boxes -> {NoRecord} \cup
                    {[node |-> NoRecord, phase |-> "Running", runtime |-> x, late |-> FALSE] : x \in BOOLEAN} \cup
                    {[node |-> NoRecord, phase |-> "Creating", runtime |-> FALSE, late |-> x] : x \in BOOLEAN}]
    /\ hosts \in [Hosts -> NodePhases \cup {NoRecord}]
    /\ recovery = NotRecovering
    /\ migrating = [b \in Boxes |-> "none"]
    /\ mover = [m \in Movers |-> NoMove]
    /\ checkpoints = {}
    /\ puts = 0
    /\ since = {}

Listed(db, D) == {x \in D : db[x] # NoRecord}

\* What others do with the store: CreateSandbox, UpdateSandbox, DeleteSandbox,
\* UpdateSandboxStatus, and the same for nodes.
PutSandbox(b, record) ==
    /\ puts < MaxPuts /\ puts' = puts + 1
    /\ boxes[b] # record
    /\ boxes' = [boxes EXCEPT ![b] = record]
    /\ since' = since \cup {b}
    /\ UNCHANGED <<hosts, recovery, migrating, mover, checkpoints>>

PutNode(h, phase) ==
    /\ puts < MaxPuts /\ puts' = puts + 1
    /\ hosts[h] # phase
    /\ hosts' = [hosts EXCEPT ![h] = phase]
    /\ since' = since \cup {h}
    /\ UNCHANGED <<boxes, recovery, migrating, mover, checkpoints>>

-----------------------------------------------------------------------------
(* RecoverAll.  Tenants come first; nothing is written for them. *)

\* recoverTenants, then ListNodes.
RecoverAll ==
    /\ recovery.at = "off"
    /\ recovery' = [recovery EXCEPT !.at = "nodes", !.hosts = hosts, !.left = Listed(hosts, Hosts)]
    /\ since' = since \ Hosts
    /\ UNCHANGED <<boxes, hosts, migrating, mover, checkpoints, puts>>

\* Mutant: the node is marked in memory only.
recoverNodeForgets(h) ==
    /\ recovery.at = "nodes" /\ h \in recovery.left
    /\ recovery' = [recovery EXCEPT !.left = @ \ {h}]
    /\ UNCHANGED <<boxes, hosts, migrating, mover, checkpoints, puts, since>>

\* recoverNodes: a node that was running is written back as not ready; nobody
\* looks at the error of the write.
recoverNode(h) ==
    /\ recovery.at = "nodes" /\ h \in recovery.left
    /\ IF recovery.hosts[h] = "Running"
       THEN \/ hosts' = [hosts EXCEPT ![h] = "NotReady"] /\ UNCHANGED since
            \/ since' = since \cup {h} /\ UNCHANGED hosts
       ELSE UNCHANGED <<hosts, since>>
    /\ recovery' = [recovery EXCEPT !.left = @ \ {h}]
    /\ UNCHANGED <<boxes, migrating, mover, checkpoints, puts>>

\* ListSandboxes
listSandboxes ==
    /\ recovery.at = "nodes" /\ recovery.left = {}
    /\ recovery' = [recovery EXCEPT !.at = "sandboxes", !.boxes = boxes, !.left = Listed(boxes, Boxes)]
    /\ since' = since \ Boxes
    /\ UNCHANGED <<boxes, hosts, migrating, mover, checkpoints, puts>>

\* A sandbox that is said to run without a runtime, or is being created for
\* too long.
Stale(r) == (r.phase = "Running" /\ ~ r.runtime) \/ (r.phase = "Creating" /\ r.late)

\* ReconcileSandboxState, whose error is logged; then the callback.
ReconcileSandboxState(b) ==
    /\ recovery.at = "sandboxes" /\ b \in recovery.left
    /\ IF Stale(recovery.boxes[b])
       THEN \/ boxes' = [boxes EXCEPT ![b] = [recovery.boxes[b] EXCEPT !.phase = "Pending"]] /\ UNCHANGED since
            \/ since' = since \cup {b} /\ UNCHANGED boxes
       ELSE UNCHANGED <<boxes, since>>
    /\ recovery' = [recovery EXCEPT !.left = @ \ {b}]
    /\ UNCHANGED <<hosts, migrating, mover, checkpoints, puts>>

RecoverDone ==
    /\ recovery.at = "sandboxes" /\ recovery.left = {}
    /\ recovery' = [recovery EXCEPT !.at = "done"]
    /\ UNCHANGED <<boxes, hosts, migrating, mover, checkpoints, puts, since>>

\* A list fails: RecoverAll returns the error, and may be called again.
RecoverFails ==
    /\ recovery.at \in {"nodes", "sandboxes"} /\ recovery.left = {}
    /\ recovery' = NotRecovering
    /\ UNCHANGED <<boxes, hosts, migrating, mover, checkpoints, puts, since>>

-----------------------------------------------------------------------------
(* MigrateSandbox *)

\* Refused for a sandbox that has an entry; entries are never removed.
MigrateSandbox(m, b, h) ==
    /\ mover[m] = NoMove
    /\ migrating[b] = "none"
    /\ migrating' = [migrating EXCEPT ![b] = "Pending"]
    /\ mover' = [mover EXCEPT ![m] = [NoMove EXCEPT !.at = "get", !.box = b, !.to = h]]
    /\ UNCHANGED <<boxes, hosts, recovery, checkpoints, puts, since>>

\* store.GetSandbox
MigrateGet(m) ==
    /\ mover[m].at = "get" /\ boxes[mover[m].box] # NoRecord
    /\ mover' = [mover EXCEPT ![m].at = "checkpoint", ![m].read = boxes[mover[m].box]]
    /\ migrating' = [migrating EXCEPT ![mover[m].box] = "Checkpoint"]
    /\ UNCHANGED <<boxes, hosts, recovery, checkpoints, puts, since>>

\* snapshot.CreateSnapshot, and the transfer, which is none.
MigrateCheckpoint(m) ==
    /\ mover[m].at = "checkpoint"
    /\ checkpoints' = checkpoints \cup {mover[m].box}
    /\ migrating' = [migrating EXCEPT ![mover[m].box] = "Restore"]
    /\ mover' = [mover EXCEPT ![m].at = "restore"]
    /\ UNCHANGED <<boxes, hosts, recovery, puts, since>>

\* snapshot.RestoreSnapshot has succeeded: the record that was read at the
\* beginning is written with the target node and the phase Running.
MigrateUpdate(m) ==
    /\ mover[m].at = "restore"
    /\ boxes' = [boxes EXCEPT ![mover[m].box] = [mover[m].read EXCEPT !.node = mover[m].to, !.phase = "Running"]]
    /\ since' = since \cup {mover[m].box}
    /\ mover' = [mover EXCEPT ![m].at = "cleanup"]
    /\ migrating' = [migrating EXCEPT ![mover[m].box] = "Cleanup"]
    /\ UNCHANGED <<hosts, recovery, checkpoints, puts>>

\* DeleteSnapshot, and the entry is marked.
MigrateComplete(m) ==
    /\ mover[m].at = "cleanup"
    /\ checkpoints' = checkpoints \ {mover[m].box}
    /\ migrating' = [migrating EXCEPT ![mover[m].box] = "Complete"]
    /\ mover' = [mover EXCEPT ![m] = NoMove]
    /\ UNCHANGED <<boxes, hosts, recovery, puts, since>>

\* failMigration, from any of the steps that can fail.
failMigration(m) ==
    /\ mover[m].at \in {"get", "checkpoint", "restore"}
    /\ migrating' = [migrating EXCEPT ![mover[m].box] = "Failed"]
    /\ mover' = [mover EXCEPT ![m] = NoMove]
    /\ UNCHANGED <<boxes, hosts, recovery, checkpoints, puts, since>>

MigrateStep(m) ==
    MigrateGet(m) \/ MigrateCheckpoint(m) \/ MigrateUpdate(m) \/ MigrateComplete(m) \/ failMigration(m)

RecoverStep ==
    \/ RecoverAll \/ listSandboxes \/ RecoverDone \/ RecoverFails
    \/ \E h \in Hosts : recoverNode(h)
    \/ \E b \in Boxes : ReconcileSandboxState(b)

OtherPuts ==
    {NoRecord, [node |-> NoRecord, phase |-> "Running", runtime |-> TRUE, late |-> FALSE]}

RecoveryNext ==
    \/ RecoverStep
    \/ \E m \in Movers : MigrateStep(m) \/ \E b \in Boxes, h \in Hosts : MigrateSandbox(m, b, h)
    \/ \E b \in Boxes, r \in OtherPuts : PutSandbox(b, r)
    \/ \E h \in Hosts, p \in NodePhases \cup {NoRecord} : PutNode(h, p)

RecoverySpec == RecoveryInit /\ [][RecoveryNext]_recoveryVars

RecoveryFairness == \A m \in Movers : WF_recoveryVars(MigrateStep(m))

-----------------------------------------------------------------------------
(* Properties *)

\* After RecoverAll no node counts as running that did not report since the
\* nodes were listed ("Mark nodes as NotReady until heartbeat is received"),
\* and no sandbox is stale that nobody has written since, but for the records
\* that recovery tried and failed to write.
RecoveredConsistent ==
    recovery.at = "done" =>
        /\ \A h \in Hosts \ since : hosts[h] # "Running"
        /\ \A b \in Boxes \ since : boxes[b] # NoRecord =>
              /\ boxes[b].phase = "Running" => boxes[b].runtime
              /\ boxes[b].phase = "Creating" => ~ boxes[b].late

\* mm.migrating: one migration of a sandbox goes on at a time, and the entry
\* says which one; a checkpoint is left behind by a failed migration only.
OneMigration ==
    /\ \A m, n \in Movers : (m # n /\ mover[m].at # "none" /\ mover[n].at # "none") => mover[m].box # mover[n].box
    /\ \A b \in checkpoints : migrating[b] \in {"Restore", "Cleanup", "Failed"}

\* Every migration ends.
MigrationEnds ==
    \A b \in Boxes : (migrating[b] # "none") ~> (migrating[b] \in {"Complete", "Failed"})

\* Recovery and migration leave the records consistent, although others write them
\* between the listing and the update and any step may fail.
RecoverySafe == RecoveredConsistent /\ OneMigration
=============================================================================
