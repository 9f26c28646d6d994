----------------------------- MODULE MCRecords ------------------------------
(***************************************************************************)
(* Model checking of the parts that keep records without a background loop *)
(* whose progress matters: snapshots, the scheduler's cache, placement,    *)
(* the event recorder, tenant isolation, egress control, the sandbox API,  *)
(* the node's networks and GPUs, its logs, the executor, the reports,      *)
(* health probes, traffic limits, workspaces, their files and the MCP hub. *)
(*                                                                         *)
(* In the modules they have no state in common, so a behaviour of all of   *)
(* them together is, for each of them, a behaviour of it alone with        *)
(* stuttering steps: one is chosen at the start and the others stay as     *)
(* they are.                                                               *)
(***************************************************************************)
EXTENDS Snapshots, ClusterCache, Placement, EventRecorder, TenantIsolation, Egress,
        SandboxAPI, NodeDevices, LogStreams, NodeExecutor, NodeReports,
        MCPHub, WorkspaceFiles, TLC

CONSTANTS x1, x2

\* The sandboxes that are placed: between them every policy, every runtime, every
\* operator of a label expression, and quantities that are absent or do not parse.
Box(cpu, memory, gpu, runtime, policy, terms, tenant) ==
    [req |-> [cpu |-> cpu, memory |-> memory, gpu |-> gpu], priority |-> 0,
     runtime |-> runtime, policy |-> policy, affinity |-> terms # {}, terms |-> terms,
     tenant |-> tenant]

Label(key, op, values) == [key |-> key, op |-> op, values |-> values]

MCPlaceSpecs ==
    {Box(1, Unset, 1, "kata", "none",
         {{Label("tenant", "Exists", {}), Label("zone", "In", {"z1"})},
          {Label("zone", "In", {"z2"})}}, "A"),
     Box(1, 1, Unset, "runc", "TenantAffinity", {{Label("zone", "NotIn", {"z1"})}}, "B"),
     Box(1, 1, 1, "gvisor", "TenantAntiAffinity", {}, "A"),
     Box(Unset, 1, Unreadable, "runc", "none", {{Label("zone", "DoesNotExist", {})}}, "B"),
     Box(Unreadable, 1, 1, "runc", "none", {}, "B")}

MCNodeOrder == <<"n1", "n2", "n3">>

MCLabels ==
    "n1" :> ("zone" :> "z1" @@ "tenant" :> "A" @@ "runtime-kata" :> "true") @@
    "n2" :> ("dedicated-tenant" :> "A" @@ "runtime-gvisor" :> "true" @@ "runtime-kata" :> "false") @@
    "n3" :> ("tenant" :> "B" @@ "runtime-kata" :> "true")

MCAllocatable ==
    "n1" :> [cpu |-> 1, memory |-> 2, gpu |-> 1] @@
    "n2" :> [cpu |-> 2, memory |-> 2, gpu |-> 1] @@
    "n3" :> [cpu |-> 2, memory |-> 2, gpu |-> 1]

\* A tenant of the highest level, and one that lets the other reach it.
MCTenantSpecs ==
    {[level |-> "Maximum", network |-> FALSE, inter |-> FALSE, from |-> {}],
     [level |-> "Standard", network |-> TRUE, inter |-> TRUE, from |-> {x1}]}

\* A host under a wildcard, a private one on both lists, and a target that is no URL.
MCEgressHosts == {<<"a", "x">>, <<"10">>, <<>>}

MCPrivateHosts == {<<"10">>}

MCEgressPolicies ==
    {[allowed |-> {<<"*", "x">>, <<"10">>}, denied |-> {<<"10">>}, audit |-> TRUE, blockPrivate |-> FALSE],
     [allowed |-> {}, denied |-> {<<"a", "x">>}, audit |-> FALSE, blockPrivate |-> TRUE]}

-----------------------------------------------------------------------------
VARIABLE part

recordVars ==
    <<part, snapVars, cacheVars, placeVars, recorderVars, isolationVars,
      egressVars, apiVars, deviceVars, logVars, executorVars, reportVars,
      probeVars, shaperVars, workspaceVars, hubVars, fileVars>>

RecordsInit ==
    /\ part \in {"snapshots", "cache", "placement", "events", "enforcer", "manager",
                 "egress", "api", "devices", "logs", "executor", "reports", "probes",
                 "shaper", "workspaces", "hub", "files"}
    /\ SnapshotInit /\ CacheInit /\ RecorderInit /\ IsolationInit /\ EgressInit
    /\ ApiInit /\ DevicesInit /\ LogInit /\ ExecutorInit /\ ReportsInit
    /\ ProbeInit /\ ShaperInit /\ WorkspacesInit /\ HubInit /\ PlaceInit
    /\ FilesInit
    /\ part # "files" => \A n \in Names : dir[n] = NoInode
    /\ part # "placement" => \A b \in PlacedBoxes : spec[b] = CHOOSE s \in PlaceSpecs : TRUE

RecordsNext ==
    /\ UNCHANGED part
    /\ \/ /\ part = "snapshots" /\ SnapshotNext
          /\ UNCHANGED <<cacheVars, placeVars, recorderVars, isolationVars,
                         egressVars, apiVars, deviceVars, logVars,
                         executorVars, reportVars, probeVars, shaperVars,
                         workspaceVars, hubVars, fileVars>>
       \/ /\ part = "cache" /\ CacheNext
          /\ UNCHANGED <<snapVars, placeVars, recorderVars, isolationVars,
                         egressVars, apiVars, deviceVars, logVars,
                         executorVars, reportVars, probeVars, shaperVars,
                         workspaceVars, hubVars, fileVars>>
       \/ /\ part = "placement" /\ PlaceNext
          /\ UNCHANGED <<snapVars, cacheVars, recorderVars, isolationVars,
                         egressVars, apiVars, deviceVars, logVars,
                         executorVars, reportVars, probeVars, shaperVars,
                         workspaceVars, hubVars, fileVars>>
       \/ /\ part = "events" /\ RecorderNext
          /\ UNCHANGED <<snapVars, cacheVars, placeVars, isolationVars,
                         egressVars, apiVars, deviceVars, logVars,
                         executorVars, reportVars, probeVars, shaperVars,
                         workspaceVars, hubVars, fileVars>>
       \/ /\ (part = "enforcer" /\ EnforcerNext) \/ (part = "manager" /\ ManagerNext)
          /\ UNCHANGED <<snapVars, cacheVars, placeVars, recorderVars,
                         egressVars, apiVars, deviceVars, logVars,
                         executorVars, reportVars, probeVars, shaperVars,
                         workspaceVars, hubVars, fileVars>>
       \/ /\ part = "egress" /\ EgressNext
          /\ UNCHANGED <<snapVars, cacheVars, placeVars, recorderVars,
                         isolationVars, apiVars, deviceVars, logVars,
                         executorVars, reportVars, probeVars, shaperVars,
                         workspaceVars, hubVars, fileVars>>
       \/ /\ part = "api" /\ ApiNext
          /\ UNCHANGED <<snapVars, cacheVars, placeVars, recorderVars,
                         isolationVars, egressVars, deviceVars, logVars,
                         executorVars, reportVars, probeVars, shaperVars,
                         workspaceVars, hubVars, fileVars>>
       \/ /\ part = "devices" /\ DevicesNext
          /\ UNCHANGED <<snapVars, cacheVars, placeVars, recorderVars,
                         isolationVars, egressVars, apiVars, logVars,
                         executorVars, reportVars, probeVars, shaperVars,
                         workspaceVars, hubVars, fileVars>>
       \/ /\ part = "logs" /\ LogNext
          /\ UNCHANGED <<snapVars, cacheVars, placeVars, recorderVars,
                         isolationVars, egressVars, apiVars, deviceVars,
                         executorVars, reportVars, probeVars, shaperVars,
                         workspaceVars, hubVars, fileVars>>
       \/ /\ part = "executor" /\ ExecutorNext
          /\ UNCHANGED <<snapVars, cacheVars, placeVars, recorderVars,
                         isolationVars, egressVars, apiVars, deviceVars,
                         logVars, reportVars, probeVars, shaperVars,
                         workspaceVars, hubVars, fileVars>>
       \/ /\ part = "reports" /\ ReportsNext
          /\ UNCHANGED <<snapVars, cacheVars, placeVars, recorderVars,
                         isolationVars, egressVars, apiVars, deviceVars,
                         logVars, executorVars, probeVars, shaperVars,
                         workspaceVars, hubVars, fileVars>>
       \/ /\ part = "probes" /\ ProbeNext
          /\ UNCHANGED <<snapVars, cacheVars, placeVars, recorderVars,
                         isolationVars, egressVars, apiVars, deviceVars,
                         logVars, executorVars, reportVars, shaperVars,
                         workspaceVars, hubVars, fileVars>>
       \/ /\ part = "shaper" /\ ShaperNext
          /\ UNCHANGED <<snapVars, cacheVars, placeVars, recorderVars,
                         isolationVars, egressVars, apiVars, deviceVars,
                         logVars, executorVars, reportVars, probeVars,
                         workspaceVars, hubVars, fileVars>>
       \/ /\ part = "workspaces" /\ WorkspacesNext
          /\ UNCHANGED <<snapVars, cacheVars, placeVars, recorderVars,
                         isolationVars, egressVars, apiVars, deviceVars,
                         logVars, executorVars, reportVars, probeVars,
                         shaperVars, hubVars, fileVars>>
       \/ /\ part = "hub" /\ HubNext
          /\ UNCHANGED <<snapVars, cacheVars, placeVars, recorderVars,
                         isolationVars, egressVars, apiVars, deviceVars,
                         logVars, executorVars, reportVars, probeVars,
                         shaperVars, workspaceVars, fileVars>>
       \/ /\ part = "files" /\ FilesNext
          /\ UNCHANGED <<snapVars, cacheVars, placeVars, recorderVars,
                         isolationVars, egressVars, apiVars, deviceVars,
                         logVars, executorVars, reportVars, probeVars,
                         shaperVars, workspaceVars, hubVars>>

RecordsSpec ==
    /\ RecordsInit /\ [][RecordsNext]_recordVars
=============================================================================
