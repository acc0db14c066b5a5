--------------------------- MODULE ScenarioScripts ---------------------------
(***************************************************************************)
(* pkg/scenarios/scenarios_impl.go: what each of the thirty scenarios does *)
(* to one target, as the sequence of registry writes and vSphere calls it  *)
(* makes in order.  ScenarioManager runs these scripts one entry at a time *)
(* while it holds Manager.mu.  The sampled values are left out: a counter  *)
(* or a property says what is overridden, the running activation says by   *)
(* whom.                                                                   *)
(***************************************************************************)
EXTENDS Integers, Sequences, SequencesExt

CONSTANTS
    Entity,       \* managed objects
    NoEntity,     \* a lookup that failed
    Path,         \* inventory paths that requests name as targets
    At,           \* path -> the first object Finder.ManagedObjectList finds
    HostsAt,      \* path -> the hosts Finder.HostSystemList finds
    HostsBelow,   \* path -> the hosts Finder.HostSystemList(path/*) finds
    VMsAt,        \* path -> the VMs Finder.VirtualMachineList finds
    NoParam       \* a parameter the request does not give as a number

ASSUME InventoryAssumption ==
    /\ NoEntity \notin Entity
    /\ At \in [Path -> Entity \union {NoEntity}]
    /\ \A p \in Path :
        {HostsAt[p], HostsBelow[p], VMsAt[p]} \subseteq Seq(Entity)

-----------------------------------------------------------------------------
(* The entries of a script.                                                *)

SetMetric(e, c) == [op |-> "setMetric", ref |-> e, counter |-> c]

SetProperty(e, p) == [op |-> "setProperty", ref |-> e, prop |-> p]

\* The properties that scenarios override.
PropertyPath ==
    {"summary.freeSpace", "summary.capacity", "summary.accessible",
     "summary.config.vmotionEnabled", "config.dateTimeInfo.ntpConfig.running",
     "runtime.connectionState", "guestHeartbeatStatus", "guest.toolsRunningStatus",
     "guest.toolsStatus"}

ClearOverrides(e) ==
    <<[op |-> "clearMetrics", ref |-> e], [op |-> "clearProperties", ref |-> e]>>

\* A vSphere call and the wait for its task: onErr says what the scenario does
\* when the call fails, onWait what it does when the wait fails: give up with
\* the error ("return"), or go on ("ignore").
Call(name, e, onErr, onWait) ==
    [op |-> name, ref |-> e, onErr |-> onErr, onWait |-> onWait]

Attempt(name, e) == Call(name, e, "ignore", "ignore")

\* The n-th of the snapshots that are asked for one after the other.
Snapshot(e, n) ==
    [op |-> "createSnapshot", ref |-> e, onErr |-> "ignore", onWait |-> "ignore", nth |-> n]

NoMark == ""

\* Disconnecting the n-th host of a cluster, unless enough of the hosts before
\* it have been; mark is the property that is set on a disconnected host.
Strike(e, n, mark) ==
    [op |-> "strike", ref |-> e, onErr |-> "ignore", onWait |-> "ignore",
     nth |-> n, mark |-> mark]

Strikes(hosts, mark) == [n \in DOMAIN hosts |-> Strike(hosts[n], n, mark)]

\* An index out of range: the handler's goroutine panics.
Panic == [op |-> "panic", ref |-> NoEntity]

ForEach(s, Body(_)) == FlattenSeq([i \in DOMAIN s |-> Body(s[i])])

SetMetrics(e, counters) == [i \in DOMAIN counters |-> SetMetric(e, counters[i])]

-----------------------------------------------------------------------------
(* Helper functions of manager.go.                                         *)

resolveRef(p) == At[p]

\* Finder.HostSystem and Finder.VirtualMachine want exactly one match.
HostSystem(p) == IF Len(HostsAt[p]) = 1 THEN HostsAt[p][1] ELSE NoEntity

VirtualMachine(p) == IF Len(VMsAt[p]) = 1 THEN VMsAt[p][1] ELSE NoEntity

\* The manager's finder has no datacenter and the pattern is a relative one,
\* so VirtualMachineList fails for every host: no caller ever gets a VM.
findVMsOnHost(h) == <<>>

findHostsInCluster(p) == HostsBelow[p]

getParamInt(param, defaultVal) == IF param = NoParam THEN defaultVal ELSE param

setHighCPUMetrics(e) == SetMetrics(e, <<2>>)

setHighCPUReady(e) == SetMetrics(e, <<12>>)

setHighMemMetrics(e, balloonMB, swapRate) ==
    SetMetrics(e, <<24>> \o (IF balloonMB > 0 THEN <<90>> ELSE <<>>)
                         \o (IF swapRate > 0 THEN <<85, 86>> ELSE <<>>))

setHighDiskLatency(e) == SetMetrics(e, <<449, 453, 133>>)

setHighNetDrops(e) == SetMetrics(e, <<460, 461>>)

-----------------------------------------------------------------------------
(* CPU and memory scenarios.                                               *)

activateCPUHostSaturation(p) ==
    setHighCPUMetrics(resolveRef(p))
    \o ForEach(findVMsOnHost(p), LAMBDA vm : setHighCPUReady(vm) \o setHighCPUMetrics(vm))

activateCPUClusterContention(p) ==
    ForEach(findHostsInCluster(p),
            LAMBDA h : setHighCPUMetrics(h) \o ForEach(findVMsOnHost(h), setHighCPUReady))

activateCPUVMCoStop(p) == SetMetrics(resolveRef(p), <<13, 12, 2>>)

activateCPURPLimit(p) == SetMetrics(resolveRef(p), <<6>>)

activateMemHostExhaustion(p) ==
    setHighMemMetrics(resolveRef(p), 4096, 2000)
    \o SetMetrics(resolveRef(p), <<80>>)
    \o ForEach(findVMsOnHost(p), LAMBDA vm : SetMetrics(vm, <<65, 35>>))

activateMemVMLeak(p) == SetMetrics(resolveRef(p), <<25, 26, 24>>)

activateMemTPSFailure(p) ==
    SetMetrics(resolveRef(p), <<36>>) \o setHighMemMetrics(resolveRef(p), 0, 0)

activateMemNUMAImbalance(p) ==
    SetMetrics(resolveRef(p), <<37>>) \o setHighCPUReady(resolveRef(p))

-----------------------------------------------------------------------------
(* Disk and network scenarios.                                             *)

activateDiskDSFull(p) ==
    <<SetProperty(resolveRef(p), "summary.freeSpace"),
      SetProperty(resolveRef(p), "summary.capacity")>>

activateDiskLatencySpike(p) == setHighDiskLatency(resolveRef(p))

activateDiskDSInaccessible(p) == <<SetProperty(resolveRef(p), "summary.accessible")>>

activateDiskIOSaturation(p) ==
    SetMetrics(resolveRef(p), <<172, 173>>) \o setHighDiskLatency(resolveRef(p))

activateDiskAPD(p) ==
    <<SetProperty(resolveRef(p), "summary.accessible")>>
    \o SetMetrics(resolveRef(p), <<172, 173>>)

activateNetMgmtPartition(p) ==
    <<Call("disconnect", HostSystem(p), "return", "return")>>

activateNetVMIsolation(p) ==
    SetMetrics(resolveRef(p), <<195>>) \o setHighNetDrops(resolveRef(p))

activateNetSaturation(p) ==
    SetMetrics(resolveRef(p), <<195>>) \o setHighNetDrops(resolveRef(p))
    \o ForEach(findVMsOnHost(p), setHighNetDrops)

activateNetUplinkFailover(p) ==
    setHighNetDrops(resolveRef(p)) \o SetMetrics(resolveRef(p), <<195>>)

-----------------------------------------------------------------------------
(* Host and VM scenarios.                                                  *)

PowerOffVMsOn(h) ==
    ForEach(findVMsOnHost(h), LAMBDA vm : <<Attempt("powerOff", vm)>>)

activateHostPSOD(p) ==
    PowerOffVMsOn(p)
    \o <<Call("disconnect", HostSystem(p), "return", "return"),
         SetProperty(HostSystem(p), "runtime.connectionState")>>
    \o SetMetrics(HostSystem(p), <<2, 24>>)

activateHostMaintenance(p) ==
    <<Call("enterMaintenance", HostSystem(p), "return", "return")>>

Overload(h) == setHighCPUMetrics(h) \o setHighMemMetrics(h, 2048, 1000)

\* for i := hostCount; i < len(hosts); i++ { hosts[i] ... }
OverloadFrom(hosts, hostCount) ==
    IF hostCount < 0
    THEN <<Panic>>
    ELSE ForEach(SubSeq(hosts, hostCount + 1, Len(hosts)), Overload)

activateHostBootStorm(p, param) ==
    Strikes(findHostsInCluster(p), NoMark)
    \o OverloadFrom(findHostsInCluster(p), getParamInt(param, 3))

activateHostVMotionFail(p) ==
    <<SetProperty(resolveRef(p), "summary.config.vmotionEnabled")>>

activateHostTimeDrift(p) ==
    <<SetProperty(resolveRef(p), "config.dateTimeInfo.ntpConfig.running")>>

activateVMCrash(p) ==
    <<SetProperty(VirtualMachine(p), "guestHeartbeatStatus"),
      Call("powerOff", VirtualMachine(p), "return", "ignore")>>

activateVMSnapshotGrowth(p, param) ==
    [n \in 1..getParamInt(param, 5) |-> Snapshot(VirtualMachine(p), n)]

activateVMToolsDown(p) ==
    <<SetProperty(resolveRef(p), "guest.toolsRunningStatus"),
      SetProperty(resolveRef(p), "guest.toolsStatus"),
      SetProperty(resolveRef(p), "guestHeartbeatStatus")>>

activateVMInvalidState(p) == <<SetProperty(resolveRef(p), "runtime.connectionState")>>

-----------------------------------------------------------------------------
(* Cascading scenarios.                                                    *)

activateCascadeSANFailure(p) ==
    <<SetProperty(resolveRef(p), "summary.accessible")>>
    \o SetMetrics(resolveRef(p), <<172, 170>>)

activateCascadeHAExhaustion(p) ==
    LET hosts == findHostsInCluster(p)
    IN  PowerOffVMsOn(hosts[1])
        \o <<Attempt("disconnect", hosts[1])>>
        \o ForEach(Tail(hosts), Overload)
        \o PowerOffVMsOn(hosts[2])
        \o <<Attempt("disconnect", hosts[2]),
             SetProperty(hosts[2], "runtime.connectionState")>>
        \o ForEach(SubSeq(hosts, 3, Len(hosts)), Overload)

activateCascadeNetworkSplit(p) ==
    LET hosts == findHostsInCluster(p)
        halfCount == Len(hosts) \div 2
    IN  ForEach(SubSeq(hosts, 1, halfCount),
                LAMBDA h : <<Attempt("disconnect", h)>>)
        \o ForEach(SubSeq(hosts, halfCount + 1, Len(hosts)), setHighNetDrops)

\* Each host's VMs are powered off before its Strike; none is ever found.
activateCascadeRackPower(p, param) ==
    Strikes(findHostsInCluster(p), "runtime.connectionState")
    \o OverloadFrom(findHostsInCluster(p), getParamInt(param, 4))

-----------------------------------------------------------------------------
(* Deactivation.                                                           *)

\* A faulty variant: the property overrides are forgotten.
ClearsMetricsOnly(p) == <<[op |-> "clearMetrics", ref |-> resolveRef(p)]>>

deactivateClearOverrides(p) == ClearOverrides(resolveRef(p))

\* A faulty variant: the host is left disconnected.
ForgetsReconnect(p) == ClearOverrides(HostSystem(p))

deactivateHostDisconnect(p) ==
    ClearOverrides(HostSystem(p)) \o <<Attempt("reconnect", HostSystem(p))>>

deactivateHostMaintenance(p) == <<Attempt("exitMaintenance", HostSystem(p))>>

\* A faulty variant: the VM is left powered off.
ForgetsPowerOn(p) == ClearOverrides(VirtualMachine(p))

deactivateVMCrash(p) ==
    ClearOverrides(VirtualMachine(p)) \o <<Attempt("powerOn", VirtualMachine(p))>>

-----------------------------------------------------------------------------
(* Dispatch by scenario.                                                   *)

HostScenario == {"net_mgmt_partition", "host_psod", "host_maintenance"}

VMScenario == {"vm_crash", "vm_snapshot_growth"}

ClusterScenario ==
    {"cpu_cluster_contention", "host_boot_storm", "cascade_ha_exhaustion",
     "cascade_network_split", "cascade_rack_power"}

RefScenario ==
    {"cpu_host_saturation", "cpu_vm_costop", "cpu_rp_limit", "mem_host_exhaustion",
     "mem_vm_leak", "mem_tps_failure", "mem_numa_imbalance", "disk_ds_full",
     "disk_latency_spike", "disk_ds_inaccessible", "disk_io_saturation", "disk_apd",
     "net_vm_isolation", "net_saturation", "net_uplink_failover", "host_vmotion_fail",
     "host_time_drift", "vm_tools_down", "vm_invalid_state", "cascade_san_failure"}

\* The scenario definitions the manager registers.
registerAllScenarios == HostScenario \union VMScenario \union ClusterScenario \union RefScenario

\* The lookup a scenario's loop starts with finds what it needs at p.
ActivationFinds(id, p) ==
    CASE id \in HostScenario -> HostSystem(p) # NoEntity
      [] id \in VMScenario -> VirtualMachine(p) # NoEntity
      [] id = "cascade_ha_exhaustion" -> Len(findHostsInCluster(p)) >= 3
      [] id \in ClusterScenario \ {"cascade_ha_exhaustion"} -> findHostsInCluster(p) # <<>>
      [] OTHER -> resolveRef(p) # NoEntity

DeactivationFinds(id, p) ==
    CASE id \in HostScenario -> HostSystem(p) # NoEntity
      [] id = "vm_crash" -> VirtualMachine(p) # NoEntity
      [] OTHER -> resolveRef(p) # NoEntity

activateScenario(id, p, param) ==
    CASE id = "cpu_host_saturation" -> activateCPUHostSaturation(p)
      [] id = "cpu_cluster_contention" -> activateCPUClusterContention(p)
      [] id = "cpu_vm_costop" -> activateCPUVMCoStop(p)
      [] id = "cpu_rp_limit" -> activateCPURPLimit(p)
      [] id = "mem_host_exhaustion" -> activateMemHostExhaustion(p)
      [] id = "mem_vm_leak" -> activateMemVMLeak(p)
      [] id = "mem_tps_failure" -> activateMemTPSFailure(p)
      [] id = "mem_numa_imbalance" -> activateMemNUMAImbalance(p)
      [] id = "disk_ds_full" -> activateDiskDSFull(p)
      [] id = "disk_latency_spike" -> activateDiskLatencySpike(p)
      [] id = "disk_ds_inaccessible" -> activateDiskDSInaccessible(p)
      [] id = "disk_io_saturation" -> activateDiskIOSaturation(p)
      [] id = "disk_apd" -> activateDiskAPD(p)
      [] id = "net_mgmt_partition" -> activateNetMgmtPartition(p)
      [] id = "net_vm_isolation" -> activateNetVMIsolation(p)
      [] id = "net_saturation" -> activateNetSaturation(p)
      [] id = "net_uplink_failover" -> activateNetUplinkFailover(p)
      [] id = "host_psod" -> activateHostPSOD(p)
      [] id = "host_maintenance" -> activateHostMaintenance(p)
      [] id = "host_boot_storm" -> activateHostBootStorm(p, param)
      [] id = "host_vmotion_fail" -> activateHostVMotionFail(p)
      [] id = "host_time_drift" -> activateHostTimeDrift(p)
      [] id = "vm_crash" -> activateVMCrash(p)
      [] id = "vm_snapshot_growth" -> activateVMSnapshotGrowth(p, param)
      [] id = "vm_tools_down" -> activateVMToolsDown(p)
      [] id = "vm_invalid_state" -> activateVMInvalidState(p)
      [] id = "cascade_san_failure" -> activateCascadeSANFailure(p)
      [] id = "cascade_ha_exhaustion" -> activateCascadeHAExhaustion(p)
      [] id = "cascade_network_split" -> activateCascadeNetworkSplit(p)
      [] id = "cascade_rack_power" -> activateCascadeRackPower(p, param)

deactivateScenario(id, p) ==
    CASE id \in {"host_psod", "net_mgmt_partition"} -> deactivateHostDisconnect(p)
      [] id = "host_maintenance" -> deactivateHostMaintenance(p)
      [] id = "vm_crash" -> deactivateVMCrash(p)
      [] OTHER -> deactivateClearOverrides(p)

\* The number of hosts a Strike stops at.
StrikeLimit(id, param) ==
    getParamInt(param, IF id = "host_boot_storm" THEN 3 ELSE 4)
=============================================================================
