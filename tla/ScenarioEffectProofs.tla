------------------------ MODULE ScenarioEffectProofs ------------------------
(***************************************************************************)
(* What an activation brings about and what a deactivation takes back, for *)
(* any inventory, requests, number of handlers and loss of sessions.       *)
(***************************************************************************)
EXTENDS ScenarioClearProofs, ListsProofs

-----------------------------------------------------------------------------
(* What the activation of a scenario may do at a path: set overrides on    *)
(* the objects it marks, make its calls on the objects it reaches.         *)

Reach(id, p) ==
    IF id \in HostScenario THEN {HostSystem(p)}
    ELSE IF id \in VMScenario THEN {VirtualMachine(p)}
    ELSE IF id \in ClusterScenario THEN Range(findHostsInCluster(p))
    ELSE {resolveRef(p)}

CallsOnly == {"net_mgmt_partition", "host_maintenance", "vm_snapshot_growth"}

Marks(id, p) == IF id \in CallsOnly THEN {} ELSE Reach(id, p)

Acts(id) ==
    IF id \in {"net_mgmt_partition", "host_psod"} THEN {"disconnect"}
    ELSE IF id = "host_maintenance" THEN {"enterMaintenance"}
    ELSE IF id = "vm_crash" THEN {"powerOff"}
    ELSE IF id = "vm_snapshot_growth" THEN {"createSnapshot"}
    ELSE IF id \in {"host_boot_storm", "cascade_rack_power"} THEN {"strike", "panic"}
    ELSE IF id \in {"cascade_ha_exhaustion", "cascade_network_split"} THEN {"disconnect"}
    ELSE {}

\* What it does when one of its calls, or the wait for the task, fails.
OnErr(id) == IF id \in HostScenario \union {"vm_crash"} THEN "return" ELSE "ignore"

OnWait(id) == IF id \in HostScenario THEN "return" ELSE "ignore"

Sets(marked) ==
    [op : {"setMetric"}, ref : marked, counter : Int] \union
    [op : {"setProperty"}, ref : marked, prop : PropertyPath]

Calling(id, reached) ==
    [op : Acts(id) \intersect {"disconnect", "enterMaintenance", "powerOff"}, ref : reached,
     onErr : {OnErr(id)}, onWait : {OnWait(id)}] \union
    [op : Acts(id) \intersect {"createSnapshot"}, ref : reached,
     onErr : {OnErr(id)}, onWait : {OnWait(id)}, nth : Nat \ {0}] \union
    [op : Acts(id) \intersect {"strike"}, ref : reached,
     onErr : {OnErr(id)}, onWait : {OnWait(id)}, nth : Nat,
     mark : PropertyPath \union {NoMark}] \union
    [op : Acts(id) \intersect {"panic"}, ref : {NoEntity}]

Deed(id, p) == Sets(Marks(id, p)) \union Calling(id, Reach(id, p))

LEMMA SetMetricsType ==
    ASSUME NEW S, NEW e \in S, NEW counters \in Seq(Int)
    PROVE  SetMetrics(e, counters) \in Seq(Sets(S))
<1>1. \A i \in 1..Len(counters) : SetMetric(e, counters[i]) \in Sets(S)
  BY DEF SetMetric, Sets
<1>2. QED
  BY <1>1 DEF SetMetrics

LEMMA SetPropertyType ==
    ASSUME NEW S, NEW e \in S, NEW prop \in PropertyPath
    PROVE  SetProperty(e, prop) \in Sets(S)
BY DEF SetProperty, Sets

\* The helpers of manager.go set metrics of one object.
LEMMA HelperType ==
    ASSUME NEW S, NEW e \in S
    PROVE  /\ setHighCPUMetrics(e) \in Seq(Sets(S)) /\ setHighCPUReady(e) \in Seq(Sets(S))
           /\ setHighDiskLatency(e) \in Seq(Sets(S)) /\ setHighNetDrops(e) \in Seq(Sets(S))
           /\ \A b, r \in Nat : setHighMemMetrics(e, b, r) \in Seq(Sets(S))
           /\ Overload(e) \in Seq(Sets(S))
<1>1. <<2>> \in Seq(Int) /\ <<12>> \in Seq(Int) /\ <<449, 453, 133>> \in Seq(Int)
      /\ <<460, 461>> \in Seq(Int)
  OBVIOUS
<1>2. ASSUME NEW b \in Nat, NEW r \in Nat PROVE setHighMemMetrics(e, b, r) \in Seq(Sets(S))
  <2>1. <<24>> \o (IF b > 0 THEN <<90>> ELSE <<>>) \o (IF r > 0 THEN <<85, 86>> ELSE <<>>) \in Seq(Int)
    OBVIOUS
  <2>2. QED
    BY <2>1, SetMetricsType DEF setHighMemMetrics
<1>3. setHighCPUMetrics(e) \in Seq(Sets(S)) /\ setHighCPUReady(e) \in Seq(Sets(S))
  BY <1>1, SetMetricsType DEF setHighCPUMetrics, setHighCPUReady
<1>4. setHighDiskLatency(e) \in Seq(Sets(S)) /\ setHighNetDrops(e) \in Seq(Sets(S))
  <2>1. \A counters \in Seq(Int) : SetMetrics(e, counters) \in Seq(Sets(S))
    BY SetMetricsType
  <2>2. SetMetrics(e, <<449, 453, 133>>) \in Seq(Sets(S))
    BY <1>1, <2>1, ZenonT(30)
  <2>3. SetMetrics(e, <<460, 461>>) \in Seq(Sets(S))
    BY <1>1, <2>1, ZenonT(30)
  <2>4. QED
    BY <2>2, <2>3 DEF setHighDiskLatency, setHighNetDrops
<1>5. Overload(e) \in Seq(Sets(S))
  BY <1>2, <1>3 DEF Overload
<1>6. QED
  BY <1>2, <1>3, <1>4, <1>5

\* Wider scripts, and loops over hosts.
LEMMA SeqWider ==
    ASSUME NEW S, NEW T, S \subseteq T, NEW s \in Seq(S)
    PROVE  s \in Seq(T)
OBVIOUS

LEMMA LoopType ==
    ASSUME NEW S, NEW n \in Nat, NEW f, f = [i \in 1..n |-> f[i]], \A i \in 1..n : f[i] \in Seq(S)
    PROVE  FlattenSeq(f) \in Seq(S)
<1>1. f \in Seq(Seq(S))
  BY SeqDef
<1>2. QED
  BY <1>1, FlattenType

\* No VM is ever found on a host.
LEMMA NoVMs ==
    ASSUME NEW S, NEW f, f = [i \in {} |-> f[i]]
    PROVE  FlattenSeq(f) \in Seq(S)
<1>1. f = [i \in 1..0 |-> f[i]] /\ \A i \in 1..0 : f[i] \in Seq(S)
  OBVIOUS
<1>2. QED
  BY <1>1, LoopType

LEMMA NoVMsLoops ==
    ASSUME NEW S, NEW h
    PROVE  /\ DOMAIN findVMsOnHost(h) = {}
           /\ ForEach(findVMsOnHost(h), setHighCPUReady) \in Seq(S)
           /\ ForEach(findVMsOnHost(h), setHighNetDrops) \in Seq(S)
           /\ ForEach(findVMsOnHost(h), LAMBDA vm : setHighCPUReady(vm) \o setHighCPUMetrics(vm)) \in Seq(S)
           /\ ForEach(findVMsOnHost(h), LAMBDA vm : SetMetrics(vm, <<65, 35>>)) \in Seq(S)
           /\ PowerOffVMsOn(h) \in Seq(S)
<1>1. DOMAIN findVMsOnHost(h) = {}
  BY DEF findVMsOnHost
<1>2. \A f : f = [i \in {} |-> f[i]] => FlattenSeq(f) \in Seq(S)
  BY NoVMs
<1> DEFINE s == findVMsOnHost(h)
           f1 == [i \in DOMAIN s |-> setHighCPUReady(s[i])]
           f2 == [i \in DOMAIN s |-> setHighNetDrops(s[i])]
           f3 == [i \in DOMAIN s |-> setHighCPUReady(s[i]) \o setHighCPUMetrics(s[i])]
           f4 == [i \in DOMAIN s |-> SetMetrics(s[i], <<65, 35>>)]
           f5 == [i \in DOMAIN s |-> <<Attempt("powerOff", s[i])>>]
<1>3. f1 = [i \in {} |-> f1[i]] /\ f2 = [i \in {} |-> f2[i]] /\ f3 = [i \in {} |-> f3[i]]
      /\ f4 = [i \in {} |-> f4[i]] /\ f5 = [i \in {} |-> f5[i]]
  BY <1>1
<1> HIDE DEF f1, f2, f3, f4, f5
<1>4. /\ FlattenSeq(f1) \in Seq(S) /\ FlattenSeq(f2) \in Seq(S) /\ FlattenSeq(f3) \in Seq(S)
      /\ FlattenSeq(f4) \in Seq(S) /\ FlattenSeq(f5) \in Seq(S)
  BY <1>2, <1>3
<1>5. QED
  BY <1>1, <1>4, Zenon DEF ForEach, PowerOffVMsOn, f1, f2, f3, f4, f5

\* The scenarios that act on the object at the path.
LEMMA RefScript ==
    ASSUME NEW p, NEW id \in RefScenario, NEW param
    PROVE  activateScenario(id, p, param) \in Seq(Sets({resolveRef(p)}))
<1> DEFINE e == resolveRef(p)
           Q == Seq(Sets({e}))
<1>0. \A a, b \in Q : a \o b \in Q
  OBVIOUS
<1> HIDE DEF e
<1>1. \A counters \in Seq(Int) : SetMetrics(e, counters) \in Q
  BY SetMetricsType
<1>2. /\ setHighCPUMetrics(e) \in Q /\ setHighCPUReady(e) \in Q
      /\ setHighDiskLatency(e) \in Q /\ setHighNetDrops(e) \in Q
      /\ \A b, r \in Nat : setHighMemMetrics(e, b, r) \in Q
  BY HelperType
<1>3. \A prop \in PropertyPath : SetProperty(e, prop) \in Sets({e})
  BY SetPropertyType
<1>4. /\ <<13, 12, 2>> \in Seq(Int) /\ <<6>> \in Seq(Int) /\ <<80>> \in Seq(Int)
      /\ <<25, 26, 24>> \in Seq(Int) /\ <<36>> \in Seq(Int) /\ <<37>> \in Seq(Int)
      /\ <<172, 173>> \in Seq(Int) /\ <<195>> \in Seq(Int) /\ <<172, 170>> \in Seq(Int)
  OBVIOUS
<1>5. /\ SetMetrics(e, <<13, 12, 2>>) \in Q /\ SetMetrics(e, <<6>>) \in Q
      /\ SetMetrics(e, <<80>>) \in Q /\ SetMetrics(e, <<25, 26, 24>>) \in Q
      /\ SetMetrics(e, <<36>>) \in Q /\ SetMetrics(e, <<37>>) \in Q
      /\ SetMetrics(e, <<172, 173>>) \in Q /\ SetMetrics(e, <<195>>) \in Q
      /\ SetMetrics(e, <<172, 170>>) \in Q
  BY <1>1, <1>4, Zenon
<1>6. /\ <<SetProperty(e, "summary.accessible")>> \in Q
      /\ <<SetProperty(e, "summary.config.vmotionEnabled")>> \in Q
      /\ <<SetProperty(e, "config.dateTimeInfo.ntpConfig.running")>> \in Q
      /\ <<SetProperty(e, "runtime.connectionState")>> \in Q
      /\ <<SetProperty(e, "summary.freeSpace"), SetProperty(e, "summary.capacity")>> \in Q
      /\ <<SetProperty(e, "guest.toolsRunningStatus"), SetProperty(e, "guest.toolsStatus"),
           SetProperty(e, "guestHeartbeatStatus")>> \in Q
  BY <1>3 DEF PropertyPath
<1>7. /\ ForEach(findVMsOnHost(p), setHighNetDrops) \in Q
      /\ ForEach(findVMsOnHost(p), LAMBDA vm : setHighCPUReady(vm) \o setHighCPUMetrics(vm)) \in Q
      /\ ForEach(findVMsOnHost(p), LAMBDA vm : SetMetrics(vm, <<65, 35>>)) \in Q
  BY NoVMsLoops, Zenon
<1> HIDE DEF Q
<1>8. CASE id \in {"cpu_host_saturation", "cpu_vm_costop", "cpu_rp_limit", "mem_host_exhaustion",
                  "mem_vm_leak", "mem_tps_failure", "mem_numa_imbalance"}
  <2>1. /\ activateCPUHostSaturation(p) \in Q /\ activateCPUVMCoStop(p) \in Q
        /\ activateCPURPLimit(p) \in Q
    BY <1>0, <1>2, <1>5, <1>7, Zenon DEF activateCPUHostSaturation, activateCPUVMCoStop, activateCPURPLimit, e
  <2>2. activateMemHostExhaustion(p) \in Q
    <3>1. setHighMemMetrics(e, 4096, 2000) \in Q
      BY <1>2
    <3> DEFINE x == setHighMemMetrics(e, 4096, 2000)
               y == SetMetrics(e, <<80>>)
               z == ForEach(findVMsOnHost(p), LAMBDA vm : SetMetrics(vm, <<65, 35>>))
    <3>2. activateMemHostExhaustion(p) = (x \o y) \o z
      BY DEF activateMemHostExhaustion, e
    <3>3. y \in Q /\ z \in Q
      BY <1>5, <1>7, Zenon
    <3> HIDE DEF y, z
    <3>4. x \in Q
      BY <3>1
    <3> HIDE DEF x
    <3>5. QED
      BY <1>0, <3>2, <3>3, <3>4
  <2>3. /\ activateMemVMLeak(p) \in Q /\ activateMemTPSFailure(p) \in Q
        /\ activateMemNUMAImbalance(p) \in Q
    BY <1>0, <1>2, <1>5, Zenon DEF activateMemVMLeak, activateMemTPSFailure, activateMemNUMAImbalance, e
  <2>4. QED
    BY <1>8, <2>1, <2>2, <2>3 DEF activateScenario, Q, e
<1>9. CASE id \in {"disk_ds_full", "disk_latency_spike", "disk_ds_inaccessible", "disk_io_saturation",
                  "disk_apd"}
  <2>1. /\ activateDiskDSFull(p) \in Q /\ activateDiskLatencySpike(p) \in Q
        /\ activateDiskDSInaccessible(p) \in Q
    BY <1>2, <1>6, Zenon DEF activateDiskDSFull, activateDiskLatencySpike, activateDiskDSInaccessible, e
  <2>2. activateDiskIOSaturation(p) \in Q /\ activateDiskAPD(p) \in Q
    BY <1>0, <1>2, <1>5, <1>6, Zenon DEF activateDiskIOSaturation, activateDiskAPD, e
  <2>3. QED
    BY <1>9, <2>1, <2>2 DEF activateScenario, Q, e
<1>10. CASE id \in {"net_vm_isolation", "net_saturation", "net_uplink_failover"}
  <2>1. activateNetVMIsolation(p) \in Q /\ activateNetUplinkFailover(p) \in Q
    BY <1>0, <1>2, <1>5, Zenon DEF activateNetVMIsolation, activateNetUplinkFailover, e
  <2>2. activateNetSaturation(p) \in Q
    BY <1>0, <1>2, <1>5, <1>7, Zenon DEF activateNetSaturation, e
  <2>3. QED
    BY <1>10, <2>1, <2>2 DEF activateScenario, Q, e
<1>11. CASE id \in {"host_vmotion_fail", "host_time_drift", "vm_tools_down", "vm_invalid_state",
                   "cascade_san_failure"}
  <2>1. /\ activateHostVMotionFail(p) \in Q /\ activateHostTimeDrift(p) \in Q
        /\ activateVMToolsDown(p) \in Q /\ activateVMInvalidState(p) \in Q
    BY <1>6, Zenon DEF activateHostVMotionFail, activateHostTimeDrift, activateVMToolsDown,
                     activateVMInvalidState, e
  <2>2. activateCascadeSANFailure(p) \in Q
    BY <1>0, <1>5, <1>6, Zenon DEF activateCascadeSANFailure, e
  <2>3. QED
    BY <1>11, <2>1, <2>2 DEF activateScenario, Q, e
<1>12. QED
  BY <1>8, <1>9, <1>10, <1>11 DEF RefScenario, Q, e

LEMMA CallType ==
    ASSUME NEW id, NEW p, NEW e \in Reach(id, p),
           NEW name \in Acts(id) \intersect {"disconnect", "enterMaintenance", "powerOff"}
    PROVE  Call(name, e, OnErr(id), OnWait(id)) \in Deed(id, p)
BY DEF Call, Calling, Deed

\* The scenarios that act on a host or on a VM.
LEMMA HostScript ==
    ASSUME NEW p, NEW id \in HostScenario, NEW param
    PROVE  activateScenario(id, p, param) \in Seq(Deed(id, p))
<1> DEFINE h == HostSystem(p)
<1>1. Reach(id, p) = {h}
  BY DEF Reach
<1>2. CASE id = "net_mgmt_partition"
  <2>1. Call("disconnect", h, "return", "return") \in Deed(id, p)
    BY <1>1, <1>2, CallType DEF Acts, OnErr, OnWait
  <2>2. QED
    BY <1>2, <2>1 DEF activateScenario, activateNetMgmtPartition
<1>3. CASE id = "host_maintenance"
  <2>1. Call("enterMaintenance", h, "return", "return") \in Deed(id, p)
    BY <1>1, <1>3, CallType DEF Acts, OnErr, OnWait
  <2>2. QED
    BY <1>3, <2>1 DEF activateScenario, activateHostMaintenance
<1>4. CASE id = "host_psod"
  <2>1. Call("disconnect", h, "return", "return") \in Deed(id, p)
    BY <1>1, <1>4, CallType DEF Acts, OnErr, OnWait
  <2>2. Marks(id, p) = {h}
    BY <1>1, <1>4 DEF Marks, CallsOnly
  <2>3. SetProperty(h, "runtime.connectionState") \in Deed(id, p)
    BY <2>2, SetPropertyType DEF Deed, PropertyPath
  <2>4. SetMetrics(h, <<2, 24>>) \in Seq(Deed(id, p))
    <3>1. <<2, 24>> \in Seq(Int)
      OBVIOUS
    <3>2. SetMetrics(h, <<2, 24>>) \in Seq(Sets({h}))
      BY <3>1, SetMetricsType, Zenon
    <3>3. Sets({h}) \subseteq Deed(id, p)
      BY <2>2 DEF Deed
    <3>4. QED
      BY <3>2, <3>3, SeqWider
  <2>5. PowerOffVMsOn(p) \in Seq(Deed(id, p))
    BY NoVMsLoops
  <2>6. <<Call("disconnect", h, "return", "return"), SetProperty(h, "runtime.connectionState")>>
           \in Seq(Deed(id, p))
    BY <2>1, <2>3
  <2>7. activateHostPSOD(p) \in Seq(Deed(id, p))
    BY <2>4, <2>5, <2>6 DEF activateHostPSOD
  <2>8. QED
    BY <1>4, <2>7 DEF activateScenario
<1>5. QED
  BY <1>2, <1>3, <1>4 DEF HostScenario

LEMMA VMScript ==
    ASSUME NEW p, NEW id \in VMScenario, NEW param \in Int \union {NoParam}
    PROVE  activateScenario(id, p, param) \in Seq(Deed(id, p))
<1> DEFINE vm == VirtualMachine(p)
<1>1. Reach(id, p) = {vm}
  BY DEF Reach, VMScenario, HostScenario
<1>2. CASE id = "vm_crash"
  <2>1. Call("powerOff", vm, "return", "ignore") \in Deed(id, p)
    BY <1>1, <1>2, CallType DEF Acts, OnErr, OnWait, HostScenario
  <2>2. SetProperty(vm, "guestHeartbeatStatus") \in Deed(id, p)
    BY <1>1, <1>2, SetPropertyType DEF Deed, PropertyPath, Marks, CallsOnly
  <2>3. QED
    BY <1>2, <2>1, <2>2 DEF activateScenario, activateVMCrash
<1>3. CASE id = "vm_snapshot_growth"
  <2>1. \A n \in Nat \ {0} : Snapshot(vm, n) \in Deed(id, p)
    BY <1>1, <1>3 DEF Snapshot, Deed, Calling, Acts, OnErr, OnWait, HostScenario
  <2>2. PICK n \in Int : n = getParamInt(param, 5)
    BY DEF getParamInt
  <2>3. [i \in 1..n |-> Snapshot(vm, i)] \in Seq(Deed(id, p))
    <3>1. CASE n >= 0
      BY <2>1, <3>1
    <3>2. CASE n < 0
      <4>1. 1..n = 1..0
        BY <3>2
      <4>2. QED
        BY <2>1, <4>1
    <3>3. QED
      BY <3>1, <3>2
  <2>4. activateVMSnapshotGrowth(p, param) \in Seq(Deed(id, p))
    BY <2>2, <2>3 DEF activateVMSnapshotGrowth
  <2>5. QED
    BY <1>3, <2>4 DEF activateScenario
<1>4. QED
  BY <1>2, <1>3 DEF VMScenario

\* The scenarios that act on the hosts of a cluster.
LEMMA OverloadLoop ==
    ASSUME NEW S, NEW part \in Seq(S)
    PROVE  ForEach(part, Overload) \in Seq(Sets(S))
<1>1. Len(part) \in Nat /\ DOMAIN part = 1..Len(part) /\ \A i \in 1..Len(part) : part[i] \in S
  OBVIOUS
<1>2. \A i \in 1..Len(part) : Overload(part[i]) \in Seq(Sets(S))
  BY <1>1, HelperType
<1> DEFINE f == [i \in 1..Len(part) |-> Overload(part[i])]
<1>3. f = [i \in 1..Len(part) |-> f[i]] /\ \A i \in 1..Len(part) : f[i] \in Seq(Sets(S))
  BY <1>2
<1> HIDE DEF f
<1>4. FlattenSeq(f) \in Seq(Sets(S))
  BY <1>1, <1>3, LoopType
<1>5. QED
  BY <1>1, <1>4 DEF f, ForEach

LEMMA OverloadFromType ==
    ASSUME NEW S, NEW hosts \in Seq(S), NEW n \in Int, n >= 0
    PROVE  OverloadFrom(hosts, n) \in Seq(Sets(S))
<1>1. SubSeq(hosts, n + 1, Len(hosts)) \in Seq(S)
  OBVIOUS
<1>2. ForEach(SubSeq(hosts, n + 1, Len(hosts)), Overload) \in Seq(Sets(S))
  BY <1>1, OverloadLoop
<1>3. ~(n < 0)
  OBVIOUS
<1>4. QED
  BY <1>2, <1>3, Zenon DEF OverloadFrom

LEMMA ClusterScript ==
    ASSUME NEW p \in Path, NEW id \in ClusterScenario, NEW param \in Int \union {NoParam},
           id = "cascade_ha_exhaustion" => Len(findHostsInCluster(p)) >= 3
    PROVE  activateScenario(id, p, param) \in Seq(Deed(id, p))
<1> DEFINE hosts == findHostsInCluster(p)
           R == Range(hosts)
           D == Deed(id, p)
           n == Len(hosts)
<1>1. hosts \in Seq(R) /\ n \in Nat /\ DOMAIN hosts = 1..n /\ \A i \in 1..n : hosts[i] \in R
  <2>1. hosts \in Seq(Entity)
    BY InventoryAssumption DEF findHostsInCluster
  <2>2. n \in Nat /\ DOMAIN hosts = 1..n /\ hosts = [i \in 1..n |-> hosts[i]]
    BY <2>1
  <2>3. \A i \in 1..n : hosts[i] \in R
    BY <2>2 DEF Range
  <2> HIDE DEF hosts, R
  <2>4. QED
    BY <2>2, <2>3, SeqDef
<1>2. Reach(id, p) = R /\ Marks(id, p) = R
  BY DEF Reach, Marks, CallsOnly, ClusterScenario, HostScenario, VMScenario
<1>3. OnErr(id) = "ignore" /\ OnWait(id) = "ignore"
  BY DEF OnErr, OnWait, ClusterScenario, HostScenario
<1>4. Sets(R) \subseteq D
  BY <1>2 DEF Deed
<1>5. ASSUME NEW h \in R, id \in {"cascade_ha_exhaustion", "cascade_network_split"}
      PROVE  Attempt("disconnect", h) \in D
  BY <1>2, <1>3, <1>5, CallType DEF Acts, Attempt
<1>6. ASSUME id \in {"host_boot_storm", "cascade_rack_power"}
      PROVE  /\ <<Panic>> \in Seq(D)
             /\ \A mark \in PropertyPath \union {NoMark} : Strikes(hosts, mark) \in Seq(D)
  <2>1. <<Panic>> \in Seq(D)
    BY <1>6 DEF Deed, Calling, Panic, Acts
  <2>2. \A mark \in PropertyPath \union {NoMark} : \A i \in 1..n : Strike(hosts[i], i, mark) \in D
    BY <1>1, <1>2, <1>3, <1>6 DEF Deed, Calling, Strike, Acts
  <2> HIDE DEF hosts, D, n
  <2>3. \A mark \in PropertyPath \union {NoMark} : Strikes(hosts, mark) \in Seq(D)
    BY <1>1, <2>2 DEF Strikes
  <2>4. QED
    BY <2>1, <2>3
<1>8. \A a, b \in Seq(D) : a \o b \in Seq(D)
  OBVIOUS
<1>9. \A a : a \in Seq(Sets(R)) => a \in Seq(D)
  BY <1>4, SeqWider
<1>10. \A m \in Int : SubSeq(hosts, 1, m) \in Seq(R) \/ m > n
  BY <1>1
<1>11. \A m \in Nat \ {0} : SubSeq(hosts, m, n) \in Seq(R)
  BY <1>1
<1> HIDE DEF hosts, R, D, n
<1>12. ASSUME NEW m \in Int, id \in {"host_boot_storm", "cascade_rack_power"}
       PROVE  OverloadFrom(hosts, m) \in Seq(D)
  <2>1. CASE m < 0
    BY <1>6, <1>12, <2>1 DEF OverloadFrom
  <2>2. CASE m >= 0
    BY <1>1, <1>9, <2>2, OverloadFromType
  <2>3. QED
    BY <2>1, <2>2
<1>13. CASE id = "cpu_cluster_contention"
  <2> DEFINE f == [i \in 1..n |-> setHighCPUMetrics(hosts[i])
                                  \o ForEach(findVMsOnHost(hosts[i]), setHighCPUReady)]
  <2>1. \A i \in 1..n : f[i] \in Seq(Sets(R))
    <3>1. \A i \in 1..n : setHighCPUMetrics(hosts[i]) \in Seq(Sets(R))
      BY <1>1, HelperType
    <3>2. \A i \in 1..n : ForEach(findVMsOnHost(hosts[i]), setHighCPUReady) \in Seq(Sets(R))
      BY NoVMsLoops, Zenon
    <3>3. \A a, b \in Seq(Sets(R)) : a \o b \in Seq(Sets(R))
      OBVIOUS
    <3>4. QED
      BY <3>1, <3>2, <3>3, Zenon
  <2>2. f = [i \in 1..n |-> f[i]]
    OBVIOUS
  <2>3. activateCPUClusterContention(p) = FlattenSeq(f)
    BY <1>1, Zenon DEF activateCPUClusterContention, ForEach, hosts
  <2> HIDE DEF f
  <2>4. FlattenSeq(f) \in Seq(Sets(R))
    BY <1>1, <2>1, <2>2, LoopType
  <2>5. QED
    BY <1>9, <1>13, <2>3, <2>4 DEF activateScenario, D
<1>14. CASE id = "host_boot_storm"
  <2>1. PICK m \in Int : m = getParamInt(param, 3)
    BY DEF getParamInt
  <2>2. OverloadFrom(hosts, m) \in Seq(D)
    BY <1>12, <1>14
  <2>3. Strikes(hosts, NoMark) \in Seq(D)
    BY <1>6, <1>14 DEF PropertyPath
  <2>4. activateHostBootStorm(p, param) \in Seq(D)
    BY <1>8, <2>1, <2>2, <2>3 DEF activateHostBootStorm, hosts
  <2>5. QED
    BY <1>14, <2>4 DEF activateScenario, D
<1>15. CASE id = "cascade_rack_power"
  <2>1. PICK m \in Int : m = getParamInt(param, 4)
    BY DEF getParamInt
  <2>2. OverloadFrom(hosts, m) \in Seq(D)
    BY <1>12, <1>15
  <2>3. Strikes(hosts, "runtime.connectionState") \in Seq(D)
    BY <1>6, <1>15 DEF PropertyPath
  <2>4. activateCascadeRackPower(p, param) \in Seq(D)
    BY <1>8, <2>1, <2>2, <2>3 DEF activateCascadeRackPower, hosts
  <2>5. QED
    BY <1>15, <2>4 DEF activateScenario, D
<1>16. CASE id = "cascade_network_split"
  <2> DEFINE half == n \div 2
             down == SubSeq(hosts, 1, half)
             up == SubSeq(hosts, half + 1, n)
             f == [i \in DOMAIN down |-> <<Attempt("disconnect", down[i])>>]
             g == [i \in DOMAIN up |-> setHighNetDrops(up[i])]
  <2>1. half \in Nat /\ half <= n
    BY <1>1
  <2>2. down \in Seq(R) /\ up \in Seq(R)
    <3> HIDE DEF half
    <3>1. QED
      BY <1>10, <1>11, <2>1
  <2>3. activateCascadeNetworkSplit(p) = FlattenSeq(f) \o FlattenSeq(g)
    BY Zenon DEF activateCascadeNetworkSplit, ForEach, hosts, n
  <2> HIDE DEF down, up
  <2>4. /\ Len(down) \in Nat /\ DOMAIN down = 1..Len(down) /\ \A i \in 1..Len(down) : down[i] \in R
        /\ Len(up) \in Nat /\ DOMAIN up = 1..Len(up) /\ \A i \in 1..Len(up) : up[i] \in R
    BY <2>2
  <2>5. /\ f = [i \in 1..Len(down) |-> f[i]] /\ \A i \in 1..Len(down) : f[i] \in Seq(D)
        /\ g = [i \in 1..Len(up) |-> g[i]] /\ \A i \in 1..Len(up) : g[i] \in Seq(Sets(R))
    BY <1>5, <1>16, <2>4, HelperType
  <2> HIDE DEF f, g
  <2>6. FlattenSeq(f) \in Seq(D) /\ FlattenSeq(g) \in Seq(Sets(R))
    BY <2>4, <2>5, LoopType
  <2>7. activateCascadeNetworkSplit(p) \in Seq(D)
    BY <1>8, <1>9, <2>3, <2>6
  <2>8. QED
    BY <1>16, <2>7 DEF activateScenario, D
<1>17. CASE id = "cascade_ha_exhaustion"
  <2>1. n >= 3
    BY <1>17 DEF n, hosts
  <2>2. hosts[1] \in R /\ hosts[2] \in R
    BY <1>1, <2>1
  <2>3. Tail(hosts) \in Seq(R) /\ SubSeq(hosts, 3, n) \in Seq(R)
    BY <1>1, <1>11, <2>1
  <2>4. ForEach(Tail(hosts), Overload) \in Seq(D) /\ ForEach(SubSeq(hosts, 3, n), Overload) \in Seq(D)
    BY <1>9, <2>3, OverloadLoop
  <2>5. <<Attempt("disconnect", hosts[1])>> \in Seq(D)
    BY <1>5, <1>17, <2>2
  <2>6. <<Attempt("disconnect", hosts[2]), SetProperty(hosts[2], "runtime.connectionState")>> \in Seq(D)
    <3>1. SetProperty(hosts[2], "runtime.connectionState") \in D
      BY <1>4, <2>2, SetPropertyType DEF PropertyPath
    <3>2. Attempt("disconnect", hosts[2]) \in D
      BY <1>5, <1>17, <2>2
    <3>3. QED
      BY <3>1, <3>2
  <2>7. PowerOffVMsOn(hosts[1]) \in Seq(D) /\ PowerOffVMsOn(hosts[2]) \in Seq(D)
    BY NoVMsLoops
  <2>8. activateCascadeHAExhaustion(p) \in Seq(D)
    BY <1>8, <2>4, <2>5, <2>6, <2>7, Zenon DEF activateCascadeHAExhaustion, hosts, n
  <2>9. QED
    BY <1>17, <2>8 DEF activateScenario, D
<1>18. QED
  BY <1>13, <1>14, <1>15, <1>16, <1>17 DEF ClusterScenario, D

\* What an activation does at a path where it finds what it needs is among its
\* deeds, on objects that exist.
LEMMA ActivationScript ==
    ASSUME NEW p \in Path, NEW id \in registerAllScenarios, NEW param \in Int \union {NoParam},
           id = "cascade_ha_exhaustion" => Len(findHostsInCluster(p)) >= 3
    PROVE  activateScenario(id, p, param) \in Seq(Deed(id, p))
<1>1. CASE id \in RefScenario
  <2>1. activateScenario(id, p, param) \in Seq(Sets({resolveRef(p)}))
    BY <1>1, RefScript
  <2>2. Marks(id, p) = {resolveRef(p)}
    BY <1>1 DEF Marks, Reach, CallsOnly, HostScenario, VMScenario, ClusterScenario, RefScenario
  <2>3. Sets({resolveRef(p)}) \subseteq Deed(id, p)
    BY <2>2 DEF Deed
  <2>4. QED
    BY <2>1, <2>3, SeqWider
<1>2. QED
  BY <1>1, HostScript, VMScript, ClusterScript DEF registerAllScenarios

LEMMA Found ==
    ASSUME NEW p \in Path, NEW id \in registerAllScenarios, ActivationFinds(id, p)
    PROVE  /\ Reach(id, p) \subseteq Entity
           /\ id = "cascade_ha_exhaustion" => Len(findHostsInCluster(p)) >= 3
<1>1. /\ HostSystem(p) \in MaybeEntity /\ VirtualMachine(p) \in MaybeEntity
      /\ resolveRef(p) \in MaybeEntity
  BY InventoryAssumption DEF HostSystem, VirtualMachine, resolveRef, MaybeEntity
<1>2. Range(findHostsInCluster(p)) \subseteq Entity
  BY InventoryAssumption DEF findHostsInCluster, Range
<1>3. CASE id \in HostScenario
  <2>1. HostSystem(p) # NoEntity
    BY <1>3 DEF ActivationFinds, HostScenario, VMScenario, ClusterScenario
  <2>2. QED
    BY <1>1, <1>3, <2>1 DEF Reach, MaybeEntity, HostScenario
<1>4. CASE id \in VMScenario
  <2>1. id \notin HostScenario
    BY <1>4 DEF HostScenario, VMScenario
  <2>2. VirtualMachine(p) # NoEntity
    BY <1>4 DEF ActivationFinds, HostScenario, VMScenario, ClusterScenario
  <2>3. QED
    BY <1>1, <1>4, <2>1, <2>2 DEF Reach, MaybeEntity, VMScenario
<1>5. CASE id \in ClusterScenario
  <2>1. id \notin HostScenario /\ id \notin VMScenario
    BY <1>5 DEF HostScenario, VMScenario, ClusterScenario
  <2>2. id = "cascade_ha_exhaustion" => Len(findHostsInCluster(p)) >= 3
    BY DEF ActivationFinds, HostScenario, VMScenario, ClusterScenario
  <2>3. QED
    BY <1>2, <1>5, <2>1, <2>2 DEF Reach
<1>6. CASE id \in RefScenario
  BY <1>1, <1>6 DEF ActivationFinds, Reach, MaybeEntity, HostScenario, VMScenario, ClusterScenario,
                    RefScenario
<1>7. QED
  BY <1>3, <1>4, <1>5, <1>6 DEF registerAllScenarios

-----------------------------------------------------------------------------
(* The order of the entries: strikes and snapshots are counted.            *)

Counted(s) ==
    \A i \in DOMAIN s :
        /\ s[i].op \in {"strike", "createSnapshot"} => s[i].nth = i
        /\ s[i].op = "createSnapshot" /\ i > 1 =>
             s[i - 1].op = "createSnapshot" /\ s[i].ref = s[i - 1].ref

LEMMA OverloadNoStrike ==
    ASSUME NEW S, NEW hosts \in Seq(S), NEW m \in Int
    PROVE  OverloadFrom(hosts, m) \in Seq(Sets(S) \union {Panic})
<1>1. CASE m < 0
  BY <1>1 DEF OverloadFrom
<1>2. CASE m >= 0
  <2>1. OverloadFrom(hosts, m) \in Seq(Sets(S))
    BY <1>2, OverloadFromType
  <2>2. QED
    BY <2>1, SeqWider
<1>3. QED
  BY <1>1, <1>2

LEMMA StormCounted ==
    ASSUME NEW hosts \in Seq(Entity), NEW m \in Int, NEW mark
    PROVE  Counted(Strikes(hosts, mark) \o OverloadFrom(hosts, m))
<1> DEFINE a == Strikes(hosts, mark)
           b == OverloadFrom(hosts, m)
<1>1. Len(hosts) \in Nat /\ a \in Seq(Range(a)) /\ Len(a) = Len(hosts) /\ DOMAIN a = 1..Len(hosts)
  BY DEF Strikes, Range
<1>2. \A i \in 1..Len(hosts) : a[i].op = "strike" /\ a[i].nth = i
  BY DEF Strikes, Strike
<1>3. b \in Seq(Sets(Entity) \union {Panic})
  BY OverloadNoStrike
<1>4. \A o \in Sets(Entity) \union {Panic} : o.op \notin {"strike", "createSnapshot"}
  BY DEF Sets, Panic
<1> HIDE DEF a, b
<1>5. /\ Len(b) \in Nat /\ \A i \in 1..Len(b) : b[i] \in Sets(Entity) \union {Panic}
  BY <1>3
<1>6. /\ DOMAIN (a \o b) = 1..(Len(a) + Len(b))
      /\ \A i \in 1..(Len(a) + Len(b)) : (a \o b)[i] = IF i <= Len(a) THEN a[i] ELSE b[i - Len(a)]
  BY <1>1, <1>3
<1>7. ASSUME NEW i \in 1..(Len(a) + Len(b))
      PROVE  /\ (a \o b)[i].op # "createSnapshot"
             /\ (a \o b)[i].op = "strike" => (a \o b)[i].nth = i
  <2>1. CASE i <= Len(a)
    BY <1>1, <1>2, <1>6, <2>1
  <2>2. CASE i > Len(a)
    <3>1. i - Len(a) \in 1..Len(b) /\ (a \o b)[i] = b[i - Len(a)]
      BY <1>1, <1>5, <1>6, <2>2
    <3>2. QED
      BY <1>4, <1>5, <3>1
  <2>3. QED
    BY <1>1, <1>5, <2>1, <2>2
<1>8. Counted(a \o b)
  BY <1>6, <1>7 DEF Counted
<1>9. QED
  BY <1>8 DEF a, b

LEMMA CountedScript ==
    ASSUME NEW p \in Path, NEW id \in registerAllScenarios, NEW param \in Int \union {NoParam},
           id = "cascade_ha_exhaustion" => Len(findHostsInCluster(p)) >= 3
    PROVE  Counted(activateScenario(id, p, param))
<1>1. CASE id \notin {"host_boot_storm", "cascade_rack_power", "vm_snapshot_growth"}
  <2>1. activateScenario(id, p, param) \in Seq(Deed(id, p))
    BY ActivationScript
  <2>2. \A o \in Deed(id, p) : o.op \notin {"strike", "createSnapshot"}
    BY <1>1 DEF Deed, Sets, Calling, Acts
  <2>3. QED
    BY <2>1, <2>2 DEF Counted
<1>2. findHostsInCluster(p) \in Seq(Entity)
  BY InventoryAssumption DEF findHostsInCluster
<1>3. CASE id = "host_boot_storm"
  <2>1. PICK m \in Int : m = getParamInt(param, 3)
    BY DEF getParamInt
  <2>2. activateScenario(id, p, param)
            = Strikes(findHostsInCluster(p), NoMark) \o OverloadFrom(findHostsInCluster(p), m)
    BY <1>3, <2>1 DEF activateScenario, activateHostBootStorm
  <2>3. QED
    BY <1>2, <2>2, StormCounted
<1>4. CASE id = "cascade_rack_power"
  <2>1. PICK m \in Int : m = getParamInt(param, 4)
    BY DEF getParamInt
  <2>2. activateScenario(id, p, param)
            = Strikes(findHostsInCluster(p), "runtime.connectionState")
              \o OverloadFrom(findHostsInCluster(p), m)
    BY <1>4, <2>1 DEF activateScenario, activateCascadeRackPower
  <2>3. QED
    BY <1>2, <2>2, StormCounted
<1>5. CASE id = "vm_snapshot_growth"
  <2>1. PICK m \in Int : m = getParamInt(param, 5)
    BY DEF getParamInt
  <2>2. activateScenario(id, p, param) = [i \in 1..m |-> Snapshot(VirtualMachine(p), i)]
    BY <1>5, <2>1 DEF activateScenario, activateVMSnapshotGrowth
  <2>3. QED
    BY <2>2 DEF Counted, Snapshot
<1>6. QED
  BY <1>1, <1>3, <1>4, <1>5

-----------------------------------------------------------------------------
(* What a deactivation does at a path.                                     *)

UndoTask(id) ==
    IF id \in {"host_psod", "net_mgmt_partition"} THEN "reconnect"
    ELSE IF id = "host_maintenance" THEN "exitMaintenance" ELSE "powerOn"

UndoOf(id) ==
    [op : {"clearMetrics", "clearProperties"}, ref : Entity] \union
    [op : {UndoTask(id)}, ref : Entity, onErr : {"ignore"}, onWait : {"ignore"}]

LEMMA UndoScript ==
    ASSUME NEW p \in Path, NEW id, DeactivationFinds(id, p)
    PROVE  deactivateScenario(id, p) \in Seq(UndoOf(id))
<1>1. /\ HostSystem(p) \in MaybeEntity /\ VirtualMachine(p) \in MaybeEntity
      /\ resolveRef(p) \in MaybeEntity
  BY InventoryAssumption DEF HostSystem, VirtualMachine, resolveRef, MaybeEntity
<1>2. ASSUME NEW e \in Entity
      PROVE  /\ ClearOverrides(e) \in Seq(UndoOf(id))
             /\ <<Attempt(UndoTask(id), e)>> \in Seq(UndoOf(id))
  BY DEF ClearOverrides, Attempt, Call, UndoOf
<1>3. CASE id \in {"host_psod", "net_mgmt_partition"}
  <2>1. HostSystem(p) \in Entity /\ UndoTask(id) = "reconnect"
    BY <1>1, <1>3 DEF DeactivationFinds, HostScenario, MaybeEntity, UndoTask
  <2>2. deactivateHostDisconnect(p) \in Seq(UndoOf(id))
    BY <1>2, <2>1 DEF deactivateHostDisconnect
  <2>3. QED
    BY <1>3, <2>2 DEF deactivateScenario
<1>4. CASE id = "host_maintenance"
  <2>1. HostSystem(p) \in Entity /\ UndoTask(id) = "exitMaintenance"
    BY <1>1, <1>4 DEF DeactivationFinds, HostScenario, MaybeEntity, UndoTask
  <2>2. deactivateHostMaintenance(p) \in Seq(UndoOf(id))
    BY <1>2, <2>1 DEF deactivateHostMaintenance
  <2>3. QED
    BY <1>4, <2>2 DEF deactivateScenario
<1>5. CASE id = "vm_crash"
  <2>1. VirtualMachine(p) \in Entity /\ UndoTask(id) = "powerOn"
    BY <1>1, <1>5 DEF DeactivationFinds, HostScenario, MaybeEntity, UndoTask
  <2>2. deactivateVMCrash(p) \in Seq(UndoOf(id))
    BY <1>2, <2>1 DEF deactivateVMCrash
  <2>3. QED
    BY <1>5, <2>2 DEF deactivateScenario
<1>6. CASE id \notin HostScenario \union {"vm_crash"}
  <2>1. resolveRef(p) \in Entity
    BY <1>1, <1>6 DEF DeactivationFinds, MaybeEntity
  <2>2. deactivateClearOverrides(p) \in Seq(UndoOf(id))
    BY <1>2, <2>1 DEF deactivateClearOverrides
  <2>3. QED
    BY <1>6, <2>2 DEF deactivateScenario, HostScenario
<1>7. QED
  BY <1>3, <1>4, <1>5, <1>6 DEF HostScenario

-----------------------------------------------------------------------------
(* What the entries of a request have in common.                           *)

Deeds(r) == UNION {Deed(r.id, p) : p \in Range(r.targets)}

Entries(r) == IF r.op = "activate" THEN Deeds(r) ELSE UndoOf(r.id)

IsCall(o) == TaskOf(o) \in VSphereTask

\* Overrides are well formed, and on objects that their activations mark.
MarkedBy(stamp) == UNION {Marks(stamp[1], p) : p \in Range(stamp[2])}

\* An entry of an activation: what it is, and where its overrides go.
LEMMA DeedShape ==
    ASSUME NEW r, NEW o \in Deeds(r)
    PROVE  /\ o.op \in {"setMetric", "setProperty", "disconnect", "createSnapshot",
                        "enterMaintenance", "powerOff", "strike", "panic"}
           /\ o.op = "setMetric" => o.counter \in Int
           /\ o.op = "setProperty" => o.prop \in PropertyPath
           /\ o.op \in {"strike", "createSnapshot"} =>
                o.onErr = "ignore" /\ o.onWait = "ignore" /\ o.nth \in Nat
           /\ o.op = "createSnapshot" => o.nth >= 1
           /\ o.op = "strike" => o.mark \in PropertyPath \union {NoMark}
           /\ o.op \in {"setMetric", "setProperty", "strike"} =>
                o.ref \in MarkedBy(<<r.id, r.targets>>)
<1>1. PICK p \in Range(r.targets) : o \in Deed(r.id, p)
  BY DEF Deeds
<1>2. CASE o \in Sets(Marks(r.id, p))
  <2>1. o.ref \in MarkedBy(<<r.id, r.targets>>)
    BY <1>1, <1>2 DEF Sets, MarkedBy
  <2>2. QED
    BY <1>2, <2>1 DEF Sets
<1>3. CASE o \in Calling(r.id, Reach(r.id, p))
  <2>1. CASE o.op = "strike"
    <3>1. r.id \in {"host_boot_storm", "cascade_rack_power"} /\ o.ref \in Reach(r.id, p)
      BY <1>3, <2>1 DEF Calling, Acts
    <3>2. o.ref \in MarkedBy(<<r.id, r.targets>>)
      BY <1>1, <3>1 DEF MarkedBy, Marks, CallsOnly
    <3>3. QED
      BY <1>3, <2>1, <3>1, <3>2 DEF Calling, OnErr, OnWait, HostScenario
  <2>2. CASE o.op = "createSnapshot"
    <3>1. r.id = "vm_snapshot_growth"
      BY <1>3, <2>2 DEF Calling, Acts
    <3>2. QED
      BY <1>3, <2>2, <3>1 DEF Calling, OnErr, OnWait, HostScenario
  <2>3. CASE o.op \notin {"strike", "createSnapshot"}
    BY <1>3, <2>3 DEF Calling
  <2>4. QED
    BY <2>1, <2>2, <2>3
<1>4. QED
  BY <1>1, <1>2, <1>3 DEF Deed

\* All calls of a request are for the same task, and wait for it the same way.
TaskIn(id) ==
    IF id = "host_maintenance" THEN "enterMaintenance"
    ELSE IF id = "vm_crash" THEN "powerOff"
    ELSE IF id = "vm_snapshot_growth" THEN "createSnapshot" ELSE "disconnect"

LEMMA Alike ==
    ASSUME NEW r, NEW o \in Entries(r), IsCall(o), NEW d \in Entries(r), IsCall(d)
    PROVE  TaskOf(o) = TaskOf(d) /\ o.onWait = d.onWait
<1>1. ASSUME NEW x \in UndoOf(r.id), IsCall(x)
      PROVE  TaskOf(x) = UndoTask(r.id) /\ x.onWait = "ignore"
  BY <1>1 DEF UndoOf, UndoTask, IsCall, TaskOf, VSphereTask
<1>2. ASSUME NEW x \in Deeds(r), IsCall(x)
      PROVE  TaskOf(x) = TaskIn(r.id) /\ x.onWait = OnWait(r.id)
  <2>1. PICK p \in Range(r.targets) : x \in Deed(r.id, p)
    BY DEF Deeds
  <2>2. x \in Calling(r.id, Reach(r.id, p)) /\ x.op # "panic"
    BY <1>2, <2>1 DEF Deed, Sets, IsCall, TaskOf, VSphereTask
  <2>3. x.onWait = OnWait(r.id) /\ x.op \in Acts(r.id)
    BY <2>2 DEF Calling
  <2>4. QED
    BY <2>2, <2>3 DEF Acts, TaskIn, TaskOf
<1>3. QED
  BY <1>1, <1>2 DEF Entries

\* A script is made of the request's entries, on objects that exist.
LEMMA ScriptType ==
    ASSUME NEW r \in Request, r.op = "activate" => r.id \in registerAllScenarios,
           NEW p \in Range(r.targets), Finds(r, p)
    PROVE  /\ ScriptOf(r, p) \in Seq(Entries(r))
           /\ \A i \in DOMAIN ScriptOf(r, p) :
                ScriptOf(r, p)[i].op # "panic" => ScriptOf(r, p)[i].ref \in Entity
           /\ Counted(ScriptOf(r, p))
<1>1. r.targets \in Seq(Path) /\ r.param \in Int \union {NoParam} /\ p \in Path
  BY ManagerAssumption DEF Range
<1>2. CASE r.op = "activate"
  <2>1. ActivationFinds(r.id, p) /\ ScriptOf(r, p) = activateScenario(r.id, p, r.param)
    BY <1>2 DEF Finds, ScriptOf
  <2>2. /\ Reach(r.id, p) \subseteq Entity /\ ScriptOf(r, p) \in Seq(Deed(r.id, p))
        /\ Counted(ScriptOf(r, p))
    BY <1>1, <1>2, <2>1, Found, ActivationScript, CountedScript
  <2>3. \A o \in Deed(r.id, p) : o.op # "panic" => o.ref \in Entity
    BY <2>2 DEF Deed, Sets, Calling, Marks
  <2>4. Deed(r.id, p) \subseteq Entries(r)
    BY <1>2 DEF Entries, Deeds
  <2>5. \A i \in DOMAIN ScriptOf(r, p) : ScriptOf(r, p)[i] \in Deed(r.id, p)
    BY <2>2
  <2>6. ScriptOf(r, p) \in Seq(Entries(r))
    BY <2>2, <2>4, SeqWider
  <2>7. QED
    BY <2>2, <2>3, <2>5, <2>6
<1>3. CASE r.op # "activate"
  <2>1. ScriptOf(r, p) \in Seq(UndoOf(r.id))
    BY <1>1, <1>3, UndoScript DEF Finds, ScriptOf
  <2>2. \A o \in UndoOf(r.id) : o.ref \in Entity /\ o.op \notin {"strike", "createSnapshot"}
    BY DEF UndoOf, UndoTask
  <2>3. \A i \in DOMAIN ScriptOf(r, p) : ScriptOf(r, p)[i] \in UndoOf(r.id)
    BY <2>1
  <2>4. QED
    BY <1>3, <2>1, <2>2, <2>3 DEF Entries, Counted
<1>4. QED
  BY <1>2, <1>3

-----------------------------------------------------------------------------
(* The inductive invariant.  Of every target of a running request, each    *)
(* entry of its script is still ahead of the goroutine or has had its      *)
(* effect; a deactivation may have skipped a target it did not find.  A    *)
(* call has had its effect, has been refused, or its task still runs: and  *)
(* then it is the only task of its object since the request came to it.    *)

HasMetric(e, c, override) ==
    <<c, "">> \in DOMAIN metrics[e] /\ metrics[e][<<c, "">>] = override

\* From the start of its task to the end of the wait, w is at a call on e.
InHand(w, e) ==
    /\ pc[w] \in {"called", "created", "listening", "blocked", "updated"}
    /\ Doing(w).ref = e

\* What call o is there to bring about.
Brought(o) ==
    /\ TaskOf(o) = "disconnect" => ~connected[o.ref]
    /\ TaskOf(o) = "reconnect" => connected[o.ref]
    /\ TaskOf(o) = "enterMaintenance" => maintenance[o.ref]
    /\ TaskOf(o) = "exitMaintenance" => ~maintenance[o.ref]
    /\ TaskOf(o) = "powerOff" => ~powered[o.ref]
    /\ TaskOf(o) = "powerOn" => powered[o.ref] \/ task[o.ref] = "error"
    /\ TaskOf(o) = "createSnapshot" => snapshots[o.ref] >= o.nth

Refused(w, o) == o.onErr = "ignore" /\ o.ref \in local[w].refused

Unwatched(w, o) == o.onWait = "ignore" /\ o.ref \in local[w].unwatched

\* w has made call o, or at least its task runs.
Seen(w, o) ==
    \/ Refused(w, o)
    \/ /\ TaskOf(o) = "createSnapshot" => snapshots[o.ref] + 1 >= o.nth
       /\ TaskRuns(o.ref) => task[o.ref] = TaskOf(o) /\ (InHand(w, o.ref) \/ Unwatched(w, o))
       /\ ~TaskRuns(o.ref) => Brought(o)

\* A host that enough hosts were struck before.
Spared(w, o) == o.op = "strike" /\ ~(o.nth <= StrikeLimit(req[w].id, req[w].param))

Written(w, o) ==
    /\ o.op = "setMetric" => HasMetric(o.ref, o.counter, OverrideBy(w))
    /\ o.op = "setProperty" => HasProperty(o.ref, o.prop, OverrideBy(w))
    /\ o.op = "strike" /\ o.mark # NoMark =>
         Spared(w, o) \/ Refused(w, o) \/ HasProperty(o.ref, o.mark, OverrideBy(w))
    /\ o.op = "clearMetrics" => DOMAIN metrics[o.ref] = {}
    /\ o.op = "clearProperties" => DOMAIN properties[o.ref] = {}

Made(w, o) ==
    /\ o \in Entries(req[w]) /\ o.ref \in Entity
    /\ Written(w, o)
    /\ IsCall(o) => Spared(w, o) \/ Seen(w, o)

\* The strikes and the snapshots ahead are counted on from those made.
Numbered(s, struck) ==
    \A i \in DOMAIN s :
        /\ s[i].op = "strike" => struck + i <= s[i].nth
        /\ s[i].op = "createSnapshot" /\ i > 1 =>
             /\ s[i - 1].op = "createSnapshot" /\ s[i].ref = s[i - 1].ref
             /\ s[i].nth = s[i - 1].nth + 1

Ahead(w) ==
    pc[w] \in Working =>
        /\ req[w].op = "activate" => req[w].id \in registerAllScenarios
        /\ local[w].expiry \in Nat /\ local[w].struck \in Nat
        /\ local[w].rest \in Seq(Range(req[w].targets))
        /\ local[w].script \in Seq(Entries(req[w]))
        /\ \A i \in DOMAIN local[w].script :
             local[w].script[i].op # "panic" => local[w].script[i].ref \in Entity
        /\ Numbered(local[w].script, local[w].struck)

Course(w) ==
    pc[w] \in Working =>
        \A p \in Range(req[w].targets) :
            \/ p \in Range(local[w].rest)
            \/ req[w].op = "deactivate" /\ ~Finds(req[w], p)
            \/ \A o \in Range(ScriptOf(req[w], p)) : o \in Range(local[w].script) \/ Made(w, o)

\* The snapshot before the one w is at.
Ready(w) ==
    pc[w] \in Working /\ local[w].script # <<>> =>
        (Doing(w).op = "createSnapshot" /\ Doing(w).nth > 1 =>
            Seen(w, Snapshot(Doing(w).ref, Doing(w).nth - 1)))

AtTask(w) ==
    /\ pc[w] \in {"called", "created", "listening", "blocked", "updated"} => Seen(w, Doing(w))
    /\ pc[w] = "updated" => ~TaskRuns(Doing(w).ref)

Placed(e, m, keys) == Registry!MapOf(m, keys) /\ \A k \in DOMAIN m : e \in MarkedBy(m[k].value)

Marked ==
    \A e \in Entity : Placed(e, metrics[e], Int \X {""}) /\ Placed(e, properties[e], PropertyPath)

\* The clock and the vSphere server.
World ==
    /\ now \in Nat
    /\ session \in Session \union {NoSession} /\ present \subseteq Path
    /\ task \in [Entity -> VSphereTask \union {"none", "error"}]
    /\ {connected, maintenance, powered} \subseteq [Entity -> BOOLEAN]
    /\ snapshots \in [Entity -> Nat]

OnCourse(w) == Ahead(w) /\ Course(w) /\ Ready(w) /\ AtTask(w)

EffectInv == World /\ Marked /\ \A w \in Worker : OnCourse(w)

LEMMA EffectInit == Init => EffectInv
<1> SUFFICES ASSUME Init PROVE EffectInv
  OBVIOUS
<1>1. World
  BY DEF Init, World
<1>2. Marked
  BY DEF Init, Marked, Placed, Registry!MapOf, Registry!EmptyMap
<1>3. \A w \in Worker : pc[w] = "idle"
  BY DEF Init
<1>4. QED
  BY <1>1, <1>2, <1>3 DEF EffectInv, OnCourse, Ahead, Course, Ready, AtTask, Working, Waiting

-----------------------------------------------------------------------------
(* The vSphere server.                                                     *)

\* The tasks, one by one.
LEMMA TaskEffect ==
    ASSUME World, NEW e \in Entity, RunTask(e)
    PROVE  /\ TaskRuns(e) /\ ~TaskRuns(e)'
           /\ \A x \in Entity \ {e} : /\ task'[x] = task[x] /\ connected'[x] = connected[x]
                                      /\ maintenance'[x] = maintenance[x]
                                      /\ powered'[x] = powered[x] /\ snapshots'[x] = snapshots[x]
           /\ task[e] = "disconnect" => ~connected'[e]
           /\ task[e] = "reconnect" => connected'[e]
           /\ task[e] = "enterMaintenance" => maintenance'[e]
           /\ task[e] = "exitMaintenance" => ~maintenance'[e]
           /\ task[e] = "powerOff" => ~powered'[e]
           /\ task[e] = "powerOn" => powered'[e] \/ task'[e] = "error"
           /\ task[e] = "createSnapshot" => snapshots'[e] = snapshots[e] + 1
           /\ World'
<1> USE DEF TaskEnds, TaskRuns, VSphereTask
<1>0. /\ DOMAIN task = Entity /\ DOMAIN connected = Entity /\ DOMAIN maintenance = Entity
      /\ DOMAIN powered = Entity /\ DOMAIN snapshots = Entity
      /\ powered[e] \in BOOLEAN
  BY DEF World
<1>1. UNCHANGED <<now, session, present>>
  BY RunsAlone DEF storeVars
<1>2. CASE DisconnectHost(e)
  BY <1>0, <1>1, <1>2 DEF DisconnectHost, World
<1>3. CASE ReconnectHost(e)
  BY <1>0, <1>1, <1>3 DEF ReconnectHost, World
<1>4. CASE EnterMaintenanceMode(e)
  BY <1>0, <1>1, <1>4 DEF EnterMaintenanceMode, World
<1>5. CASE ExitMaintenanceMode(e)
  BY <1>0, <1>1, <1>5 DEF ExitMaintenanceMode, World
<1>6. CASE PowerOffVM(e)
  BY <1>0, <1>1, <1>6 DEF PowerOffVM, World
<1>7. CASE PowerOnVM(e)
  <2>1. PICK fails \in BOOLEAN : fails = (powered[e] \/ maintenance[HostOf[e]])
    OBVIOUS
  <2>2. /\ task[e] = "powerOn" /\ task' = [task EXCEPT ![e] = IF fails THEN "error" ELSE "none"]
        /\ powered' = [powered EXCEPT ![e] = powered[e] \/ ~fails]
        /\ UNCHANGED <<connected, maintenance, snapshots>>
    BY <1>7, <2>1 DEF PowerOnVM
  <2>3. powered' \in [Entity -> BOOLEAN]
    BY <2>2 DEF World
  <2>4. QED
    BY <1>0, <1>1, <2>2, <2>3 DEF World
<1>8. CASE CreateSnapshot(e)
  <2>1. /\ task[e] = "createSnapshot" /\ task' = [task EXCEPT ![e] = "none"]
        /\ snapshots' = [snapshots EXCEPT ![e] = snapshots[e] + 1]
        /\ UNCHANGED <<connected, maintenance, powered>>
    BY <1>8 DEF CreateSnapshot
  <2>2. snapshots[e] + 1 \in Nat /\ snapshots \in [Entity -> Nat]
    BY DEF World
  <2>3. snapshots' \in [Entity -> Nat]
    BY <2>1, <2>2
  <2>4. QED
    BY <1>0, <1>1, <2>1, <2>3 DEF World
<1>9. QED
  BY <1>2, <1>3, <1>4, <1>5, <1>6, <1>7, <1>8 DEF RunTask

\* What w has seen of a call it keeps seeing: when a task ends,
LEMMA SeenTask ==
    ASSUME World, NEW e \in Entity, RunTask(e), NEW w, NEW o, o.ref \in Entity, IsCall(o),
           o.op = "createSnapshot" => o.nth \in Nat, Seen(w, o)
    PROVE  Seen(w, o)'
<1>1. UNCHANGED <<pc, local>>
  BY RunsAlone DEF handlerVars
<1>2. CASE Refused(w, o)
  BY <1>1, <1>2 DEF Seen, Refused
<1>3. CASE ~Refused(w, o) /\ o.ref # e
  <2>1. /\ task'[o.ref] = task[o.ref] /\ connected'[o.ref] = connected[o.ref]
        /\ maintenance'[o.ref] = maintenance[o.ref] /\ powered'[o.ref] = powered[o.ref]
        /\ snapshots'[o.ref] = snapshots[o.ref]
    BY <1>3, TaskEffect
  <2>2. QED
    BY <1>1, <1>3, <2>1 DEF Seen, Brought, TaskRuns, InHand, Unwatched, Doing
<1>4. CASE ~Refused(w, o) /\ o.ref = e
  <2>1. TaskRuns(e) /\ task[e] = TaskOf(o) /\ ~TaskRuns(e)'
    BY <1>4, TaskEffect DEF Seen
  <2>2. Brought(o)'
    <3>1. snapshots[e] \in Nat /\ (TaskOf(o) = "createSnapshot" => o.op = "createSnapshot")
      BY DEF World, TaskOf
    <3>2. QED
      BY <1>4, <2>1, <3>1, TaskEffect DEF Seen, Brought
  <2>3. TaskOf(o) = "createSnapshot" => snapshots'[e] + 1 >= o.nth
    <3>1. snapshots[e] \in Nat /\ (TaskOf(o) = "createSnapshot" => o.op = "createSnapshot")
      BY DEF World, TaskOf
    <3>2. QED
      BY <1>4, <2>1, <3>1, TaskEffect DEF Seen
  <2>4. QED
    BY <1>4, <2>1, <2>2, <2>3 DEF Seen
<1>5. QED
  BY <1>2, <1>3, <1>4

\* when w goes on and the vSphere server does nothing,
LEMMA SeenSame ==
    ASSUME NEW w, NEW o, Seen(w, o), UNCHANGED <<task, hostVars>>,
           local[w].refused \subseteq local'[w].refused,
           local[w].unwatched \subseteq local'[w].unwatched,
           InHand(w, o.ref) => InHand(w, o.ref)' \/ ~TaskRuns(o.ref) \/ Unwatched(w, o)'
    PROVE  Seen(w, o)'
<1>1. CASE Refused(w, o)
  BY <1>1 DEF Seen, Refused
<1>2. CASE ~Refused(w, o)
  <2>1. Unwatched(w, o) => Unwatched(w, o)'
    BY DEF Unwatched
  <2>2. QED
    BY <1>2, <2>1 DEF Seen, Brought, TaskRuns, hostVars
<1>3. QED
  BY <1>1, <1>2

\* and when w starts a task like it.
LEMMA SeenStart ==
    ASSUME ManagerInv, World, NEW w \in Worker, StartTask(w),
           NEW o, o.ref \in Entity, o.op = "createSnapshot" => o.nth \in Nat,
           TaskOf(o) = TaskOf(Doing(w)), Seen(w, o)
    PROVE  Seen(w, o)'
<1>1. /\ pc[w] = "sent" /\ ~TaskRuns(Doing(w).ref)
      /\ task' = [task EXCEPT ![Doing(w).ref] = TaskOf(Doing(w))]
      /\ pc' = [pc EXCEPT ![w] = "called"] /\ UNCHANGED <<local, hostVars>>
  BY DEF StartTask, Goto
<1>2. DOMAIN task = Entity /\ DOMAIN pc = Worker
  BY DEF World, ManagerInv, HandlersOK
<1>3. Doing(w)' = Doing(w)
  BY <1>1 DEF Doing
<1>4. CASE Refused(w, o)
  BY <1>1, <1>4 DEF Seen, Refused
<1>5. CASE ~Refused(w, o) /\ o.ref # Doing(w).ref
  <2>1. task'[o.ref] = task[o.ref]
    BY <1>1, <1>2, <1>5
  <2>2. ~InHand(w, o.ref)
    BY <1>1 DEF InHand
  <2>3. QED
    BY <1>1, <1>5, <2>1, <2>2 DEF Seen, Brought, TaskRuns, Unwatched, hostVars
<1>6. CASE ~Refused(w, o) /\ o.ref = Doing(w).ref
  <2>1. task'[o.ref] = TaskOf(o) /\ TaskRuns(o.ref)'
    BY <1>1, <1>2, <1>6 DEF TaskRuns, ManagerInv, Awaits, Waiting
  <2>2. InHand(w, o.ref)'
    BY <1>1, <1>2, <1>3, <1>6 DEF InHand
  <2>3. Brought(o)
    BY <1>1, <1>6 DEF Seen
  <2>4. TaskOf(o) = "createSnapshot" => snapshots'[o.ref] + 1 >= o.nth
    <3>1. snapshots[o.ref] \in Nat /\ (TaskOf(o) = "createSnapshot" => o.op = "createSnapshot")
      BY DEF World, TaskOf
    <3>2. QED
      BY <1>1, <2>3, <3>1 DEF Brought, hostVars
  <2>5. QED
    BY <2>1, <2>2, <2>4 DEF Seen
<1>7. QED
  BY <1>4, <1>5, <1>6

-----------------------------------------------------------------------------
(* One step of a script.                                                   *)

LEMMA HeadAndTail ==
    ASSUME NEW S, NEW s \in Seq(S), s # <<>>
    PROVE  /\ Head(s) \in S /\ Tail(s) \in Seq(S) /\ Head(s) = s[1] /\ 1 \in DOMAIN s
           /\ Tail(s) # s
           /\ \A i \in DOMAIN Tail(s) : i \in Nat /\ i + 1 \in DOMAIN s /\ Tail(s)[i] = s[i + 1]
           /\ Range(s) = {Head(s)} \union Range(Tail(s))
<1>1. /\ Head(s) \in S /\ Tail(s) \in Seq(S) /\ Head(s) = s[1] /\ 1 \in DOMAIN s
      /\ \A i \in DOMAIN Tail(s) : i \in Nat /\ i + 1 \in DOMAIN s /\ Tail(s)[i] = s[i + 1]
      /\ Len(Tail(s)) = Len(s) - 1 /\ Len(s) \in Nat
  OBVIOUS
<1>2. \A i \in DOMAIN s : i = 1 \/ (i - 1 \in DOMAIN Tail(s) /\ Tail(s)[i - 1] = s[i])
  OBVIOUS
<1>3. ASSUME NEW x \in Range(s) PROVE x \in {Head(s)} \union Range(Tail(s))
  <2>1. PICK i \in DOMAIN s : x = s[i]
    BY <1>3 DEF Range
  <2>2. QED
    BY <1>1, <1>2, <2>1 DEF Range
<1>4. Head(s) \in Range(s) /\ \A x \in Range(Tail(s)) : x \in Range(s)
  BY <1>1 DEF Range
<1>5. Range(s) = {Head(s)} \union Range(Tail(s))
  BY <1>3, <1>4
<1>6. Tail(s) # s
  <2>1. PICK n \in Nat : Len(s) = n /\ Len(Tail(s)) = n - 1
    BY <1>1
  <2>2. QED
    BY <2>1
<1>7. QED
  BY <1>1, <1>5, <1>6

\* What the record of a goroutine gains.
LEMMA WorkFields ==
    ASSUME ManagerInv, NEW w \in Worker, Works(w), local[w].struck \in Nat
    PROVE  /\ local'[w].expiry = local[w].expiry
           /\ local[w].refused \subseteq local'[w].refused
           /\ local[w].unwatched \subseteq local'[w].unwatched
           /\ \/ local'[w].struck = local[w].struck
              \/ /\ local'[w].struck = local[w].struck + 1
                 /\ local'[w].script = Tail(local[w].script)
           /\ CallIgnored(w) => Doing(w).ref \in local'[w].refused
           /\ WaitIgnored(w) => Doing(w).ref \in local'[w].unwatched
           /\ SkipHost(w) => local'[w].struck = local[w].struck
<1>0. w \in DOMAIN local
  BY DEF ManagerInv, HandlersOK
<1>1. ASSUME Advance(w)
      PROVE  /\ local'[w].expiry = local[w].expiry /\ local'[w].refused = local[w].refused
             /\ local'[w].unwatched = local[w].unwatched /\ local'[w].struck = local[w].struck
  BY <1>0, <1>1, LocalFields DEF Advance
<1>2. CASE \/ SetMetricStep(w) \/ SetPropertyStep(w)
           \/ ClearMetricsStep(w) \/ ClearPropertiesStep(w) \/ SkipHost(w)
  <2>1. Advance(w) /\ pc[w] = "running" /\ ~CallIgnored(w) /\ ~WaitIgnored(w)
    BY <1>2 DEF SetMetricStep, SetPropertyStep, ClearMetricsStep, ClearPropertiesStep,
                SkipHost, Upcoming, CallIgnored, AtCall, TaskOf, VSphereTask, WaitIgnored, WaitLost
  <2>2. QED
    BY <1>1, <2>1
<1>3. CASE CallIgnored(w)
  <2> DEFINE l == [local[w] EXCEPT !.script = Tail(@), !.refused = @ \union {Doing(w).ref}]
  <2>1. /\ l.expiry = local[w].expiry /\ l.refused = local[w].refused \union {Doing(w).ref}
        /\ l.unwatched = local[w].unwatched /\ l.struck = local[w].struck
    BY LocalFields
  <2>2. local' = [local EXCEPT ![w] = l] /\ pc[w] = "running"
    BY <1>3 DEF CallIgnored, AtCall
  <2> HIDE DEF l
  <2>3. ~WaitIgnored(w) /\ local'[w] = l
    BY <1>0, <2>2 DEF WaitIgnored, WaitLost
  <2>4. QED
    BY <2>1, <2>3
<1>4. CASE \/ SendCall(w) \/ StartTask(w) \/ CreateFilter(w) \/ WaitForUpdatesEx(w)
           \/ ReceiveUpdate(w)
  <2>1. UNCHANGED local /\ pc' # pc /\ pc'[w] # "running"
    BY <1>4 DEF SendCall, StartTask, CreateFilter, WaitForUpdatesEx, ReceiveUpdate, AtCall, Goto,
                ManagerInv, HandlersOK
  <2>2. ~CallIgnored(w) /\ ~WaitIgnored(w) /\ ~SkipHost(w)
    BY <2>1 DEF CallIgnored, WaitIgnored, SkipHost, RegistryOnly, AfterCall, Goto, ManagerInv,
                HandlersOK
  <2>3. QED
    BY <2>1, <2>2
<1>5. CASE CreatePropertyCollector(w)
  <2> DEFINE l == [local[w] EXCEPT !.collector = session]
  <2>1. /\ l.expiry = local[w].expiry /\ l.refused = local[w].refused
        /\ l.unwatched = local[w].unwatched /\ l.struck = local[w].struck
    BY LocalFields
  <2>2. local' = [local EXCEPT ![w] = l] /\ pc[w] = "called" /\ session # NoSession
    BY <1>5 DEF CreatePropertyCollector
  <2> HIDE DEF l
  <2>3. local'[w] = l /\ ~CallIgnored(w) /\ ~WaitIgnored(w) /\ ~SkipHost(w)
    BY <1>0, <2>2 DEF CallIgnored, AtCall, WaitIgnored, WaitLost, SkipHost, Upcoming
  <2>4. QED
    BY <2>1, <2>3
<1>6. ASSUME NEW e, AfterCall(w, e)
      PROVE  /\ local'[w].expiry = local[w].expiry /\ local'[w].refused = local[w].refused
             /\ local'[w].unwatched = local[w].unwatched \union e
             /\ local'[w].script = Tail(local[w].script)
             /\ local'[w].struck \in {local[w].struck, local[w].struck + 1}
  <2> DEFINE l == [local[w] EXCEPT !.script = Tail(@), !.collector = NoSession,
                                   !.struck = IF Doing(w).op = "strike" THEN @ + 1 ELSE @,
                                   !.unwatched = @ \union e]
  <2>1. /\ l.expiry = local[w].expiry /\ l.refused = local[w].refused
        /\ l.unwatched = local[w].unwatched \union e /\ l.script = Tail(local[w].script)
        /\ l.struck \in {local[w].struck, local[w].struck + 1}
    BY LocalFields
  <2>2. local' = [local EXCEPT ![w] = l]
    BY <1>6 DEF AfterCall
  <2> HIDE DEF l
  <2>3. QED
    BY <1>0, <2>1, <2>2
<1>7. CASE WaitDone(w)
  <2>1. AfterCall(w, {}) /\ pc[w] = "updated" /\ session = local[w].collector
    BY <1>7 DEF WaitDone
  <2>2. ~CallIgnored(w) /\ ~WaitIgnored(w) /\ ~SkipHost(w)
    BY <2>1 DEF CallIgnored, AtCall, WaitIgnored, WaitLost, SkipHost, Upcoming
  <2>3. QED
    BY <1>6, <2>1, <2>2
<1>8. CASE WaitIgnored(w)
  <2>1. AfterCall(w, {Doing(w).ref}) /\ pc[w] # "running"
    BY <1>8 DEF WaitIgnored, WaitLost
  <2>2. ~CallIgnored(w) /\ ~SkipHost(w)
    BY <2>1 DEF CallIgnored, AtCall, SkipHost, Upcoming
  <2>3. QED
    BY <1>6, <2>1, <2>2
<1>9. QED
  BY <1>2, <1>3, <1>4, <1>5, <1>7, <1>8 DEF Works

\* A script does nothing to the vSphere server but start tasks.
LEMMA WorkWorld ==
    ASSUME NEW w, Works(w)
    PROVE  /\ UNCHANGED <<now, req, session, present, hostVars>>
           /\ StartTask(w) \/ UNCHANGED task
           /\ \/ UNCHANGED <<metrics, properties>>
              \/ SetMetricStep(w) \/ SetPropertyStep(w)
              \/ ClearMetricsStep(w) \/ ClearPropertiesStep(w)
              \/ WaitDone(w) \/ WaitIgnored(w)
<1> USE DEF storeVars, vsphereVars, hostVars
<1>1. CASE \/ SetMetricStep(w) \/ SetPropertyStep(w)
           \/ ClearMetricsStep(w) \/ ClearPropertiesStep(w)
  BY <1>1 DEF SetMetricStep, SetPropertyStep, ClearMetricsStep, ClearPropertiesStep, RegistryOnly,
              Registry!SetMetric, Registry!SetProperty, Registry!ClearMetrics, Registry!ClearProperties
<1>2. CASE SkipHost(w) \/ CallIgnored(w)
  BY <1>2 DEF SkipHost, CallIgnored, RegistryOnly
<1>3. CASE \/ SendCall(w) \/ CreatePropertyCollector(w) \/ CreateFilter(w)
           \/ WaitForUpdatesEx(w) \/ ReceiveUpdate(w)
  BY <1>3 DEF SendCall, CreatePropertyCollector, CreateFilter, WaitForUpdatesEx, ReceiveUpdate,
              RequestOnly
<1>4. CASE StartTask(w)
  BY <1>4 DEF StartTask
<1>5. CASE WaitDone(w) \/ WaitIgnored(w)
  BY <1>5 DEF WaitDone, WaitIgnored, AfterCall, Registry!SetProperty
<1>6. QED
  BY <1>1, <1>2, <1>3, <1>4, <1>5 DEF Works

\* What w has seen of a call it keeps seeing as it goes on.
LEMMA SeenWorks ==
    ASSUME ManagerInv, World, NEW w \in Worker, Works(w), local[w].struck \in Nat, AtTask(w),
           NEW o, o.ref \in Entity, o.op = "createSnapshot" => o.nth \in Nat,
           IsCall(Doing(w)) => TaskOf(o) = TaskOf(Doing(w)) /\ o.onWait = Doing(w).onWait,
           Seen(w, o)
    PROVE  Seen(w, o)'
<1>1. CASE StartTask(w)
  <2>1. IsCall(Doing(w))
    BY <1>1 DEF StartTask, ManagerInv, Awaits, Waiting, IsCall
  <2>2. QED
    BY <1>1, <2>1, SeenStart
<1>2. CASE ~StartTask(w)
  <2>1. UNCHANGED <<task, hostVars>>
    BY <1>2, WorkWorld
  <2>2. ASSUME InHand(w, o.ref)
        PROVE  InHand(w, o.ref)' \/ ~TaskRuns(o.ref) \/ Unwatched(w, o)'
    <3>1. /\ pc[w] \in {"called", "created", "listening", "blocked", "updated"}
          /\ Doing(w).ref = o.ref
      BY <2>2 DEF InHand
    <3>2. IsCall(Doing(w)) /\ DOMAIN pc = Worker /\ DOMAIN local = Worker
      BY <3>1 DEF ManagerInv, HandlersOK, Awaits, Waiting, IsCall
    <3>3. CASE \/ CreatePropertyCollector(w) \/ CreateFilter(w) \/ WaitForUpdatesEx(w)
               \/ ReceiveUpdate(w)
      <4>1. local'[w].script = local[w].script
        <5>1. CASE CreatePropertyCollector(w)
          BY <3>2, <5>1, LocalFields DEF CreatePropertyCollector
        <5>2. CASE CreateFilter(w) \/ WaitForUpdatesEx(w) \/ ReceiveUpdate(w)
          BY <5>2 DEF CreateFilter, WaitForUpdatesEx, ReceiveUpdate
        <5>3. QED
          BY <3>3, <5>1, <5>2
      <4>2. pc'[w] \in {"created", "listening", "blocked", "updated"}
        BY <3>2, <3>3 DEF CreatePropertyCollector, CreateFilter, WaitForUpdatesEx, ReceiveUpdate,
                          Goto
      <4>3. QED
        BY <3>1, <4>1, <4>2 DEF InHand, Doing
    <3>4. CASE WaitDone(w)
      BY <3>1, <3>4 DEF WaitDone, AtTask
    <3>5. CASE WaitIgnored(w)
      <4>1. o.ref \in local'[w].unwatched
        BY <3>1, <3>5, WorkFields
      <4>2. o.onWait = "ignore"
        BY <3>2, <3>5 DEF WaitIgnored
      <4>3. QED
        BY <4>1, <4>2 DEF Unwatched
    <3>6. pc[w] \notin {"running", "sent"}
      BY <3>1
    <3>7. ~(\/ SetMetricStep(w) \/ SetPropertyStep(w)
            \/ ClearMetricsStep(w) \/ ClearPropertiesStep(w)
            \/ SkipHost(w) \/ SendCall(w) \/ CallIgnored(w))
      BY <3>6 DEF SetMetricStep, SetPropertyStep, ClearMetricsStep, ClearPropertiesStep, SkipHost,
                  Upcoming, SendCall, CallIgnored, AtCall
    <3>8. QED
      BY <1>2, <3>3, <3>4, <3>5, <3>7 DEF Works
  <2>3. QED
    BY <2>1, <2>2, WorkFields, SeenSame
<1>3. QED
  BY <1>1, <1>2

\* The entry a goroutine is at.
LEMMA EntryAhead ==
    ASSUME NEW w, pc[w] \in Working, local[w].script # <<>>, Ahead(w)
    PROVE  /\ Doing(w) \in Entries(req[w])
           /\ Doing(w).op # "panic" => Doing(w).ref \in Entity
<1>1. local[w].script \in Seq(Entries(req[w]))
  BY DEF Ahead
<1>2. Doing(w) \in Entries(req[w]) /\ Doing(w) = local[w].script[1] /\ 1 \in DOMAIN local[w].script
  BY <1>1, HeadAndTail DEF Doing
<1>3. QED
  BY <1>2 DEF Ahead

LEMMA WorksHas ==
    ASSUME ManagerInv, NEW w \in Worker, Works(w)
    PROVE  pc[w] \in Working /\ local[w].script # <<>> /\ Doing(w).op # "panic"
<1>1. pc[w] \in Working /\ pc'[w] \in Working /\ req'[w] = req[w]
  BY WorkMoves DEF Moves
<1>2. CASE pc[w] \in Waiting
  BY <1>1, <1>2 DEF ManagerInv, Awaits, TaskOf, VSphereTask
<1>3. CASE pc[w] \notin Waiting
  BY <1>1, <1>3 DEF Works, SetMetricStep, SetPropertyStep, ClearMetricsStep, ClearPropertiesStep,
                    SkipHost, Upcoming, SendCall, CallIgnored, AtCall, TaskOf, VSphereTask, StartTask,
                    CreatePropertyCollector, CreateFilter, WaitForUpdatesEx, ReceiveUpdate, WaitDone,
                    WaitIgnored, WaitLost, Waiting
<1>4. QED
  BY <1>2, <1>3

\* An activation adds its overrides, and takes none of them away.
LEMMA WriteActivation ==
    ASSUME ManagerInv, Tables, NEW w \in Worker, Works(w), req[w].op = "activate", Ahead(w),
           NEW override, override = OverrideBy(w), NEW d, d = Doing(w)
    PROVE  /\ \A e \in Entity : \A k :
                /\ HasMetric(e, k, override) => HasMetric(e, k, override)'
                /\ HasProperty(e, k, override) => HasProperty(e, k, override)'
           /\ SetMetricStep(w) => HasMetric(d.ref, d.counter, override)'
           /\ SetPropertyStep(w) => HasProperty(d.ref, d.prop, override)'
           /\ WaitDone(w) \/ WaitIgnored(w) =>
                (d.op = "strike" /\ d.mark # NoMark => HasProperty(d.ref, d.mark, override)')
<1>1. pc[w] \in Working /\ d \in Deeds(req[w]) /\ d.ref \in Entity
  BY WorksHas, EntryAhead DEF Entries
<1>2. ~ClearMetricsStep(w) /\ ~ClearPropertiesStep(w)
  BY <1>1, DeedShape DEF ClearMetricsStep, ClearPropertiesStep, Upcoming
<1>3. ASSUME NEW k, metrics' = [metrics EXCEPT ![d.ref] = Registry!Put(metrics[d.ref], k, override)]
      PROVE  /\ k \in DOMAIN metrics'[d.ref] /\ metrics'[d.ref][k] = override
             /\ \A e \in Entity : \A j : j \in DOMAIN metrics[e] /\ metrics[e][j] = override =>
                                     j \in DOMAIN metrics'[e] /\ metrics'[e][j] = override
  BY <1>1, <1>3 DEF Tables, Registry!Put
<1>4. ASSUME NEW k,
             properties' = [properties EXCEPT ![d.ref] = Registry!Put(properties[d.ref], k, override)]
      PROVE  /\ k \in DOMAIN properties'[d.ref] /\ properties'[d.ref][k] = override
             /\ \A e \in Entity : \A j : j \in DOMAIN properties[e] /\ properties[e][j] = override =>
                                     j \in DOMAIN properties'[e] /\ properties'[e][j] = override
  BY <1>1, <1>4 DEF Tables, Registry!Put
<1>5. CASE SetMetricStep(w)
  <2>1. /\ metrics' = [metrics EXCEPT ![d.ref] =
                          Registry!Put(metrics[d.ref], <<d.counter, "">>, override)]
        /\ properties' = properties /\ pc[w] = "running" /\ d.op = "setMetric"
    BY <1>5 DEF SetMetricStep, Upcoming, Registry!SetMetric
  <2>2. ~SetPropertyStep(w) /\ ~WaitDone(w) /\ ~WaitIgnored(w)
    BY <2>1 DEF SetPropertyStep, Upcoming, WaitDone, WaitIgnored, WaitLost
  <2>3. HasMetric(d.ref, d.counter, override)'
    BY <1>3, <2>1 DEF HasMetric
  <2>4. \A e \in Entity : \A k :
              /\ HasMetric(e, k, override) => HasMetric(e, k, override)'
              /\ HasProperty(e, k, override) => HasProperty(e, k, override)'
    BY <1>3, <2>1 DEF HasMetric, HasProperty
  <2>5. QED
    BY <2>2, <2>3, <2>4
<1>6. CASE SetPropertyStep(w)
  <2>1. /\ properties' = [properties EXCEPT ![d.ref] =
                             Registry!Put(properties[d.ref], d.prop, override)]
        /\ metrics' = metrics /\ pc[w] = "running" /\ d.op = "setProperty"
    BY <1>6 DEF SetPropertyStep, Upcoming, Registry!SetProperty
  <2>2. ~SetMetricStep(w) /\ ~WaitDone(w) /\ ~WaitIgnored(w)
    BY <2>1 DEF SetMetricStep, Upcoming, WaitDone, WaitIgnored, WaitLost
  <2>3. HasProperty(d.ref, d.prop, override)'
    BY <1>4, <2>1 DEF HasProperty
  <2>4. \A e \in Entity : \A k :
              /\ HasMetric(e, k, override) => HasMetric(e, k, override)'
              /\ HasProperty(e, k, override) => HasProperty(e, k, override)'
    BY <1>4, <2>1 DEF HasMetric, HasProperty
  <2>5. QED
    BY <2>2, <2>3, <2>4
<1>7. CASE WaitDone(w) \/ WaitIgnored(w)
  <2>1. pc[w] # "running" /\ \E e : AfterCall(w, e)
    BY <1>7 DEF WaitDone, WaitIgnored, WaitLost
  <2>2. ~SetMetricStep(w) /\ ~SetPropertyStep(w)
    BY <2>1 DEF SetMetricStep, SetPropertyStep, Upcoming
  <2>3. CASE d.op = "strike" /\ d.mark # NoMark
    <3>1. /\ properties' = [properties EXCEPT ![d.ref] =
                               Registry!Put(properties[d.ref], d.mark, override)]
          /\ metrics' = metrics
      BY <2>1, <2>3 DEF AfterCall, Registry!SetProperty
    <3>2. HasProperty(d.ref, d.mark, override)'
      BY <1>4, <3>1 DEF HasProperty
    <3>3. \A e \in Entity : \A k :
                /\ HasMetric(e, k, override) => HasMetric(e, k, override)'
                /\ HasProperty(e, k, override) => HasProperty(e, k, override)'
      BY <1>4, <3>1 DEF HasMetric, HasProperty
    <3>4. QED
      BY <2>2, <3>2, <3>3
  <2>4. CASE ~(d.op = "strike" /\ d.mark # NoMark)
    <3>1. UNCHANGED <<metrics, properties>>
      BY <2>1, <2>4 DEF AfterCall, storeVars
    <3>2. QED
      BY <2>2, <2>4, <3>1 DEF HasMetric, HasProperty
  <2>5. QED
    BY <2>3, <2>4
<1>8. CASE ~(SetMetricStep(w) \/ SetPropertyStep(w) \/ WaitDone(w) \/ WaitIgnored(w))
  <2>1. UNCHANGED <<metrics, properties>>
    BY <1>2, <1>8, WorkWorld
  <2>2. QED
    BY <1>8, <2>1 DEF HasMetric, HasProperty
<1>9. QED
  BY <1>5, <1>6, <1>7, <1>8

\* A deactivation adds none.
LEMMA WriteUndo ==
    ASSUME ManagerInv, Tables, NEW w \in Worker, Works(w), req[w].op = "deactivate", Ahead(w),
           NEW d, d = Doing(w)
    PROVE  /\ \A e \in Entity : /\ DOMAIN metrics[e] = {} => DOMAIN metrics'[e] = {}
                                /\ DOMAIN properties[e] = {} => DOMAIN properties'[e] = {}
           /\ ClearMetricsStep(w) => DOMAIN metrics'[d.ref] = {}
           /\ ClearPropertiesStep(w) => DOMAIN properties'[d.ref] = {}
<1>1. pc[w] \in Working /\ d \in UndoOf(req[w].id) /\ d.ref \in Entity
  BY WorksHas, EntryAhead DEF Entries
<1>2. d.op \notin {"setMetric", "setProperty", "strike"}
  BY <1>1 DEF UndoOf, UndoTask
<1>3. ~SetMetricStep(w) /\ ~SetPropertyStep(w)
  BY <1>2 DEF SetMetricStep, SetPropertyStep, Upcoming
<1>4. DOMAIN Registry!EmptyMap = {}
  BY DEF Registry!EmptyMap
<1>5. CASE ClearMetricsStep(w)
  BY <1>1, <1>4, <1>5 DEF ClearMetricsStep, ClearPropertiesStep, Upcoming, Registry!ClearMetrics,
                          Tables
<1>6. CASE ClearPropertiesStep(w)
  BY <1>1, <1>4, <1>6 DEF ClearMetricsStep, ClearPropertiesStep, Upcoming, Registry!ClearProperties,
                          Tables
<1>7. CASE ~ClearMetricsStep(w) /\ ~ClearPropertiesStep(w)
  <2>1. ASSUME WaitDone(w) \/ WaitIgnored(w) PROVE UNCHANGED <<metrics, properties>>
    BY <1>2, <2>1 DEF WaitDone, WaitIgnored, AfterCall, storeVars
  <2>2. UNCHANGED <<metrics, properties>>
    BY <1>3, <1>7, <2>1, WorkWorld
  <2>3. QED
    BY <1>7, <2>2
<1>8. QED
  BY <1>5, <1>6, <1>7

\* What a request is made of does not change under way.
LEMMA SameRequest ==
    ASSUME NEW w, req'[w] = req[w]
    PROVE  /\ Entries(req[w])' = Entries(req[w])
           /\ \A p : ScriptOf(req[w], p)' = ScriptOf(req[w], p)
           /\ \A o : Spared(w, o)' = Spared(w, o)
           /\ local'[w].expiry = local[w].expiry => OverrideBy(w)' = OverrideBy(w)
<1>1. PICK r : r = req[w] /\ r = req'[w]
  OBVIOUS
<1>2. Entries(req[w])' = Entries(req[w])
  BY <1>1
<1>3. \A p : ScriptOf(req[w], p)' = ScriptOf(req[w], p)
  BY <1>1
<1>4. \A o : Spared(w, o)' = Spared(w, o)
  BY <1>1 DEF Spared
<1>5. local'[w].expiry = local[w].expiry => OverrideBy(w)' = OverrideBy(w)
  BY DEF OverrideBy, Stamp
<1>6. QED
  BY <1>2, <1>3, <1>4, <1>5

\* What is made stays made.
LEMMA MadeWorks ==
    ASSUME ManagerInv, Tables, World, NEW w \in Worker, Works(w), Ahead(w), AtTask(w),
           NEW o, Made(w, o)
    PROVE  Made(w, o)'
<1>1. /\ pc[w] \in Working /\ local[w].struck \in Nat /\ Doing(w) \in Entries(req[w])
      /\ req'[w] = req[w] /\ local'[w].expiry = local[w].expiry
      /\ local[w].refused \subseteq local'[w].refused
  BY WorksHas, EntryAhead, WorkFields, WorkWorld DEF Ahead
<1>2. o \in Entries(req[w]) /\ o.ref \in Entity /\ (o \in Entries(req[w]))'
  BY <1>1, SameRequest DEF Made
<1>3. IsCall(o) => (Spared(w, o) \/ Seen(w, o))'
  <2> SUFFICES ASSUME IsCall(o), Seen(w, o) PROVE Seen(w, o)'
    BY <1>1, SameRequest DEF Made
  <2>1. IsCall(Doing(w)) => TaskOf(o) = TaskOf(Doing(w)) /\ o.onWait = Doing(w).onWait
    BY <1>1, <1>2, Alike
  <2>2. o.op = "createSnapshot" => o.nth \in Nat
    BY <1>2, DeedShape DEF Entries, UndoOf, UndoTask
  <2>3. QED
    BY <1>1, <1>2, <2>1, <2>2, SeenWorks
<1>4. CASE req[w].op = "activate"
  <2>1. PICK override : override = OverrideBy(w) /\ override = OverrideBy(w)'
    BY <1>1, SameRequest
  <2>2. o \in Deeds(req[w])
    BY <1>2, <1>4 DEF Entries
  <2>3. o.op \notin {"clearMetrics", "clearProperties"}
    BY <2>2, DeedShape
  <2>4. \A k : /\ HasMetric(o.ref, k, override) => HasMetric(o.ref, k, override)'
               /\ HasProperty(o.ref, k, override) => HasProperty(o.ref, k, override)'
    BY <1>2, <1>4, <2>1, WriteActivation
  <2>5. Refused(w, o) => Refused(w, o)'
    BY <1>1 DEF Refused
  <2>6. Written(w, o)'
    <3>1. o.op = "setMetric" => HasMetric(o.ref, o.counter, override)'
      BY <2>1, <2>4 DEF Made, Written
    <3>2. o.op = "setProperty" => HasProperty(o.ref, o.prop, override)'
      BY <2>1, <2>4 DEF Made, Written
    <3>3. o.op = "strike" /\ o.mark # NoMark =>
            Spared(w, o)' \/ Refused(w, o)' \/ HasProperty(o.ref, o.mark, override)'
      BY <1>1, <2>1, <2>4, <2>5, SameRequest DEF Made, Written
    <3>4. QED
      BY <2>1, <2>3, <3>1, <3>2, <3>3 DEF Written
  <2>7. QED
    BY <1>2, <1>3, <2>6 DEF Made
<1>5. CASE req[w].op # "activate"
  <2>1. req[w].op = "deactivate" /\ o \in UndoOf(req[w].id)
    BY <1>1, <1>2, <1>5 DEF ManagerInv, Place, Entries
  <2>2. o.op \notin {"setMetric", "setProperty", "strike"}
    BY <2>1 DEF UndoOf, UndoTask
  <2>3. Written(w, o)'
    BY <1>2, <2>1, <2>2, WriteUndo DEF Made, Written
  <2>4. QED
    BY <1>2, <1>3, <2>3 DEF Made
<1>6. QED
  BY <1>4, <1>5

LEMMA LimitType ==
    ASSUME ManagerInv, NEW w \in Worker, pc[w] \in Working
    PROVE  StrikeLimit(req[w].id, req[w].param) \in Int
<1>1. req[w].param \in Int \union {NoParam}
  BY ManagerAssumption DEF ManagerInv, Place, Working, Waiting
<1>2. QED
  BY <1>1 DEF StrikeLimit, getParamInt

\* What leaves the script is made.
LEMMA MadeHead ==
    ASSUME ManagerInv, Tables, World, NEW w \in Worker, Works(w), Ahead(w), AtTask(w), Done(w),
           NEW d, d = Doing(w)
    PROVE  Made(w, d)'
<1>1. /\ pc[w] \in Working /\ local[w].script # <<>> /\ local[w].struck \in Nat
      /\ d \in Entries(req[w]) /\ d.ref \in Entity
      /\ req'[w] = req[w] /\ local'[w].expiry = local[w].expiry
      /\ (d \in Entries(req[w]))'
  <2>1. req'[w] = req[w]
    BY WorkWorld
  <2>2. local[w].struck \in Nat
    BY WorksHas DEF Ahead
  <2>3. QED
    BY <2>1, <2>2, WorksHas, EntryAhead, WorkFields, SameRequest
<1>2. PICK override : override = OverrideBy(w) /\ override = OverrideBy(w)'
  BY <1>1, SameRequest
<1>3. /\ req[w].op \in {"activate", "deactivate"}
      /\ req[w].op = "activate" => d.op \notin {"clearMetrics", "clearProperties"}
      /\ req[w].op = "deactivate" => d.op \notin {"setMetric", "setProperty", "strike"}
  BY <1>1, DeedShape DEF ManagerInv, Place, Entries, UndoOf, UndoTask
<1>4. CASE \/ SetMetricStep(w) \/ SetPropertyStep(w)
           \/ ClearMetricsStep(w) \/ ClearPropertiesStep(w)
  <2>1. /\ SetMetricStep(w) => d.op = "setMetric"
        /\ SetPropertyStep(w) => d.op = "setProperty"
        /\ ClearMetricsStep(w) => d.op = "clearMetrics"
        /\ ClearPropertiesStep(w) => d.op = "clearProperties"
    BY DEF SetMetricStep, SetPropertyStep, ClearMetricsStep, ClearPropertiesStep, Upcoming
  <2>2. ~IsCall(d)
    BY <1>4, <2>1 DEF IsCall, TaskOf, VSphereTask
  <2>3. CASE req[w].op = "activate"
    <3>1. /\ SetMetricStep(w) => HasMetric(d.ref, d.counter, override)'
          /\ SetPropertyStep(w) => HasProperty(d.ref, d.prop, override)'
      BY <1>2, <2>3, WriteActivation
    <3>2. Written(w, d)'
      BY <1>2, <1>3, <1>4, <2>1, <2>3, <3>1 DEF Written
    <3>3. QED
      BY <1>1, <2>2, <3>2 DEF Made
  <2>4. CASE req[w].op = "deactivate"
    <3>1. /\ ClearMetricsStep(w) => DOMAIN metrics'[d.ref] = {}
          /\ ClearPropertiesStep(w) => DOMAIN properties'[d.ref] = {}
      BY <2>4, WriteUndo
    <3>2. Written(w, d)'
      BY <1>3, <1>4, <2>1, <2>4, <3>1 DEF Written
    <3>3. QED
      BY <1>1, <2>2, <3>2 DEF Made
  <2>5. QED
    BY <1>3, <2>3, <2>4
<1>5. CASE SkipHost(w)
  <2>1. d.op = "strike" /\ local[w].struck >= StrikeLimit(req[w].id, req[w].param)
    BY <1>5 DEF SkipHost, Upcoming, Struck
  <2>2. local[w].struck + 1 <= d.nth
    <3>1. Numbered(local[w].script, local[w].struck) /\ local[w].script \in Seq(Entries(req[w]))
      BY <1>1 DEF Ahead
    <3>2. d = local[w].script[1] /\ 1 \in DOMAIN local[w].script
      BY <1>1, <3>1, HeadAndTail DEF Doing
    <3>3. QED
      BY <2>1, <3>1, <3>2 DEF Numbered
  <2>3. d.nth \in Nat
    BY <1>1, <1>3, <2>1, DeedShape DEF Entries
  <2>4. Spared(w, d)
    BY <1>1, <2>1, <2>2, <2>3, LimitType DEF Spared
  <2>5. Spared(w, d)'
    BY <1>1, <2>4, SameRequest
  <2>6. Written(w, d)'
    BY <2>1, <2>5 DEF Written
  <2>7. QED
    BY <1>1, <2>5, <2>6 DEF Made
<1>6. CASE CallIgnored(w)
  <2>1. d.onErr = "ignore" /\ d.ref \in local'[w].refused /\ IsCall(d)
    BY <1>1, <1>6, WorkFields DEF CallIgnored, AtCall, IsCall
  <2>2. Refused(w, d)'
    BY <2>1 DEF Refused
  <2>3. Written(w, d)'
    BY <2>1, <2>2 DEF Written, IsCall, TaskOf, VSphereTask
  <2>4. QED
    BY <1>1, <2>2, <2>3 DEF Made, Seen
<1>7. CASE WaitDone(w) \/ WaitIgnored(w)
  <2>1. pc[w] \in Waiting /\ Seen(w, d)
    <3>1. pc[w] \in {"called", "created", "listening", "blocked", "updated"}
      BY <1>7 DEF WaitDone, WaitIgnored, WaitLost
    <3>2. QED
      BY <3>1 DEF AtTask, Waiting
  <2>2. IsCall(d)
    BY <2>1 DEF ManagerInv, Awaits, IsCall
  <2>3. d.op = "createSnapshot" => d.nth \in Nat
    BY <1>1, DeedShape DEF Entries, UndoOf, UndoTask
  <2>4. Seen(w, d)'
    BY <1>1, <2>1, <2>3, SeenWorks
  <2>5. Written(w, d)'
    <3>1. d.op = "strike" /\ d.mark # NoMark => HasProperty(d.ref, d.mark, override)'
      BY <1>2, <1>3, <1>7, WriteActivation
    <3>2. QED
      BY <1>2, <2>2, <3>1 DEF Written, IsCall, TaskOf, VSphereTask
  <2>6. QED
    BY <1>1, <2>4, <2>5 DEF Made
<1>8. ~(\/ SendCall(w) \/ StartTask(w) \/ CreatePropertyCollector(w) \/ CreateFilter(w)
        \/ WaitForUpdatesEx(w) \/ ReceiveUpdate(w))
  BY DEF SendCall, StartTask, CreatePropertyCollector, CreateFilter, WaitForUpdatesEx,
         ReceiveUpdate, Goto, Done, ManagerInv, HandlersOK
<1>9. QED
  BY <1>4, <1>5, <1>6, <1>7, <1>8 DEF Works

LEMMA EntryNth ==
    ASSUME NEW r, NEW o \in Entries(r)
    PROVE  o.op \in {"strike", "createSnapshot"} => o.nth \in Nat /\ o.onErr = "ignore" /\ o.onWait = "ignore"
BY DeedShape DEF Entries, UndoOf, UndoTask

LEMMA NumberedTail ==
    ASSUME NEW r, NEW s \in Seq(Entries(r)), s # <<>>,
           NEW k \in Nat, NEW n \in Nat, n <= k + 1, Numbered(s, k)
    PROVE  Numbered(Tail(s), n)
<1>1. \A i \in DOMAIN Tail(s) : i \in Nat /\ i + 1 \in DOMAIN s /\ Tail(s)[i] = s[i + 1]
  BY HeadAndTail
<1> SUFFICES ASSUME NEW i \in DOMAIN Tail(s)
             PROVE  /\ Tail(s)[i].op = "strike" => n + i <= Tail(s)[i].nth
                    /\ Tail(s)[i].op = "createSnapshot" /\ i > 1 =>
                         /\ Tail(s)[i - 1].op = "createSnapshot"
                         /\ Tail(s)[i].ref = Tail(s)[i - 1].ref
                         /\ Tail(s)[i].nth = Tail(s)[i - 1].nth + 1
  BY DEF Numbered
<1>2. Tail(s)[i] = s[i + 1] /\ i \in Nat /\ i + 1 \in DOMAIN s /\ s[i + 1] \in Entries(r)
  BY <1>1
<1>3. Tail(s)[i].op = "strike" => n + i <= Tail(s)[i].nth
  <2> SUFFICES ASSUME s[i + 1].op = "strike" PROVE n + i <= s[i + 1].nth
    BY <1>2
  <2>1. k + (i + 1) <= s[i + 1].nth /\ s[i + 1].nth \in Nat
    BY <1>2, EntryNth DEF Numbered
  <2>2. QED
    BY <1>2, <2>1
<1>4. ASSUME s[i + 1].op = "createSnapshot", i > 1
      PROVE  /\ s[i].op = "createSnapshot" /\ s[i + 1].ref = s[i].ref
             /\ s[i + 1].nth = s[i].nth + 1 /\ Tail(s)[i - 1] = s[i]
  <2>1. i + 1 > 1 /\ (i + 1) - 1 = i
    BY <1>2
  <2>2. /\ s[i].op = "createSnapshot" /\ s[i + 1].ref = s[i].ref
        /\ s[i + 1].nth = s[i].nth + 1
    BY <1>2, <1>4, <2>1 DEF Numbered
  <2>3. i - 1 \in DOMAIN Tail(s) /\ (i - 1) + 1 = i
    BY <1>2, <1>4
  <2>4. QED
    BY <1>1, <2>2, <2>3
<1>5. QED
  BY <1>2, <1>3, <1>4

LEMMA AheadWorks ==
    ASSUME ManagerInv, NEW w \in Worker, Works(w), Ahead(w)
    PROVE  Ahead(w)'
<1>1. /\ pc[w] \in Working /\ req'[w] = req[w] /\ local'[w].rest = local[w].rest
      /\ local'[w].expiry = local[w].expiry /\ (Done(w) \/ Stays(w))
  <2>1. pc[w] \in Working /\ local[w].struck \in Nat
    BY WorksHas DEF Ahead
  <2>2. QED
    BY <2>1, WorkMoves, WorkFields DEF Moves
<1>2. PICK r, s, k, s1, k1 : /\ r = req[w] /\ s = local[w].script /\ k = local[w].struck
                             /\ s1 = local'[w].script /\ k1 = local'[w].struck
  OBVIOUS
<1>3. /\ s \in Seq(Entries(r)) /\ k \in Nat /\ s # <<>> /\ Numbered(s, k)
      /\ \A i \in DOMAIN s : s[i].op # "panic" => s[i].ref \in Entity
      /\ r.op = "activate" => r.id \in registerAllScenarios
      /\ local[w].expiry \in Nat /\ local[w].rest \in Seq(Range(r.targets))
  BY <1>1, <1>2, WorksHas DEF Ahead
<1>4. k1 = k \/ (k1 = k + 1 /\ s1 = Tail(s))
  BY <1>2, <1>3, WorkFields
<1>5. /\ s1 \in Seq(Entries(r)) /\ k1 \in Nat /\ Numbered(s1, k1)
      /\ \A i \in DOMAIN s1 : s1[i].op # "panic" => s1[i].ref \in Entity
  <2>1. CASE Done(w)
    <3>1. s1 = Tail(s)
      BY <1>2, <2>1 DEF Done
    <3>2. k1 \in Nat /\ k1 <= k + 1
      BY <1>3, <1>4
    <3>3. /\ Tail(s) \in Seq(Entries(r))
          /\ \A i \in DOMAIN Tail(s) : i + 1 \in DOMAIN s /\ Tail(s)[i] = s[i + 1]
      BY <1>3, HeadAndTail
    <3>4. Numbered(s1, k1)
      BY <1>3, <3>1, <3>2, NumberedTail
    <3>5. QED
      BY <1>3, <3>1, <3>2, <3>3, <3>4
  <2>2. CASE Stays(w)
    <3>1. s1 = s
      BY <1>2, <2>2 DEF Stays
    <3>2. Tail(s) # s
      BY <1>3, HeadAndTail
    <3>3. QED
      BY <1>3, <1>4, <3>1, <3>2
  <2>3. QED
    BY <1>1, <2>1, <2>2
<1>6. QED
  BY <1>1, <1>2, <1>3, <1>5 DEF Ahead

\* The snapshot before the next one is seen.
LEMMA ReadyWorks ==
    ASSUME ManagerInv, Tables, World, NEW w \in Worker, Works(w), Ahead(w), Ready(w), AtTask(w)
    PROVE  Ready(w)'
<1>1. /\ pc[w] \in Working /\ local[w].script # <<>> /\ local[w].struck \in Nat
      /\ Doing(w) \in Entries(req[w])
      /\ Doing(w).op # "panic" => Doing(w).ref \in Entity
      /\ req'[w] = req[w] /\ (Done(w) \/ Stays(w))
  <2>1. pc[w] \in Working /\ local[w].struck \in Nat
    BY WorksHas DEF Ahead
  <2>2. QED
    BY <2>1, WorksHas, EntryAhead, WorkMoves DEF Moves
<1>2. CASE Stays(w)
  <2>1. Doing(w)' = Doing(w) /\ local'[w].script = local[w].script
    BY <1>2 DEF Stays, Doing
  <2>2. PICK d : d = Doing(w)
    OBVIOUS
  <2>3. ASSUME d.op = "createSnapshot", d.nth > 1
        PROVE  Seen(w, Snapshot(d.ref, d.nth - 1))'
    <3>1. PICK q : q = Snapshot(d.ref, d.nth - 1)
      OBVIOUS
    <3>2. Seen(w, q)
      BY <1>1, <2>2, <2>3, <3>1 DEF Ready
    <3>3. d.nth \in Nat /\ d.onWait = "ignore" /\ d.ref \in Entity
      BY <1>1, <2>2, <2>3, EntryNth
    <3>4. /\ q.ref \in Entity /\ q.nth \in Nat /\ TaskOf(q) = TaskOf(d) /\ q.onWait = d.onWait
      BY <2>3, <3>1, <3>3 DEF Snapshot, TaskOf
    <3>5. Seen(w, q)'
      BY <1>1, <2>2, <3>2, <3>4, SeenWorks
    <3>6. QED
      BY <3>1, <3>5
  <2>4. QED
    BY <2>1, <2>2, <2>3 DEF Ready
<1>3. CASE Done(w)
  <2>1. PICK s, d, o : s = local[w].script /\ d = s[1] /\ o = s[2]
    OBVIOUS
  <2>2. s \in Seq(Entries(req[w])) /\ s # <<>> /\ Numbered(s, local[w].struck)
    BY <1>1, <2>1 DEF Ahead
  <2>3. /\ d = Doing(w) /\ Tail(s) \in Seq(Entries(req[w]))
        /\ \A i \in DOMAIN Tail(s) : i + 1 \in DOMAIN s /\ Tail(s)[i] = s[i + 1]
    BY <2>1, <2>2, HeadAndTail DEF Doing
  <2>4. SUFFICES ASSUME Tail(s) # <<>>, o.op = "createSnapshot"
                 PROVE  Seen(w, Snapshot(o.ref, o.nth - 1))'
    <3>1. Tail(s) # <<>> => Head(Tail(s)) = o
      <4>1. Tail(s) # <<>> => Head(Tail(s)) = Tail(s)[1] /\ 1 \in DOMAIN Tail(s)
        BY <2>3, HeadAndTail
      <4>2. QED
        BY <2>1, <2>3, <4>1
    <3>2. local'[w].script = Tail(s)
      BY <1>3, <2>1 DEF Done
    <3>3. QED
      BY <3>1, <3>2 DEF Ready, Doing
  <2>5. 2 \in DOMAIN s
    <3>1. 1 \in DOMAIN Tail(s)
      BY <2>3, <2>4, HeadAndTail
    <3>2. QED
      BY <2>3, <3>1
  <2>6. d.op = "createSnapshot" /\ o.ref = d.ref /\ o.nth = d.nth + 1
    <3>1. \A i \in DOMAIN s : s[i].op = "createSnapshot" /\ i > 1 =>
            /\ s[i - 1].op = "createSnapshot" /\ s[i].ref = s[i - 1].ref
            /\ s[i].nth = s[i - 1].nth + 1
      BY <2>2 DEF Numbered
    <3>2. s[2].op = "createSnapshot" /\ 2 - 1 = 1
      BY <2>1, <2>4
    <3>3. s[1].op = "createSnapshot" /\ s[2].ref = s[1].ref /\ s[2].nth = s[1].nth + 1
      BY <2>5, <3>1, <3>2
    <3>4. QED
      BY <2>1, <3>3
  <2>7. Made(w, d)'
    BY <1>3, <2>3, MadeHead
  <2>8. d.nth \in Nat /\ d.onErr = "ignore" /\ d.onWait = "ignore"
    BY <1>1, <2>3, <2>6, EntryNth
  <2>9. Seen(w, d)'
    BY <2>6, <2>7 DEF Made, IsCall, TaskOf, VSphereTask, Spared
  <2>10. PICK q : q = Snapshot(o.ref, o.nth - 1)
    OBVIOUS
  <2>11. /\ q.op = d.op /\ q.ref = d.ref /\ q.onErr = d.onErr /\ q.onWait = d.onWait /\ q.nth = d.nth
    BY <2>6, <2>8, <2>10 DEF Snapshot
  <2>12. TaskOf(q) = TaskOf(d)
    BY <2>11 DEF TaskOf
  <2>13. Seen(w, q)'
    BY <2>9, <2>11, <2>12, Zenon DEF Seen, Refused, Unwatched, Brought
  <2>14. QED
    BY <2>10, <2>13
<1>4. QED
  BY <1>1, <1>2, <1>3

LEMMA AtTaskWorks ==
    ASSUME ManagerInv, World, NEW w \in Worker, Works(w), Ahead(w), Ready(w), AtTask(w)
    PROVE  AtTask(w)'
<1>1. /\ pc[w] \in Working /\ local[w].script # <<>> /\ local[w].struck \in Nat
      /\ Doing(w) \in Entries(req[w]) /\ Doing(w).ref \in Entity
      /\ Done(w) \/ Stays(w)
  <2>1. pc[w] \in Working /\ local[w].struck \in Nat
    BY WorksHas DEF Ahead
  <2>2. QED
    BY <2>1, WorksHas, EntryAhead, WorkMoves
<1>2. DOMAIN pc = Worker /\ DOMAIN task = Entity
  BY DEF ManagerInv, HandlersOK, World
<1>3. PICK d : d = Doing(w)
  OBVIOUS
<1>4. d.op = "createSnapshot" => d.nth \in Nat /\ d.nth >= 1 /\ d.onErr = "ignore"
  BY <1>1, <1>3, DeedShape DEF Entries, UndoOf, UndoTask
<1>5. CASE Done(w)
  BY <1>5 DEF AtTask, Done
<1>6. CASE Stays(w)
  <2>1. Doing(w)' = d /\ local'[w].script = local[w].script
    BY <1>3, <1>6 DEF Stays, Doing
  <2>2. ASSUME pc'[w] \in {"called", "created", "listening", "blocked", "updated"}, ~StartTask(w)
        PROVE  Seen(w, d)'
    <3>1. pc[w] \in {"called", "created", "listening", "blocked", "updated"}
      <4>1. ~(\/ SetMetricStep(w) \/ SetPropertyStep(w) \/ ClearMetricsStep(w) \/ ClearPropertiesStep(w)
              \/ SkipHost(w) \/ CallIgnored(w))
        BY <2>2 DEF SetMetricStep, SetPropertyStep, ClearMetricsStep, ClearPropertiesStep, SkipHost,
                    Upcoming, CallIgnored, AtCall, RegistryOnly
      <4>2. ~SendCall(w)
        BY <1>2, <2>2 DEF SendCall, Goto
      <4>3. QED
        BY <2>2, <4>1, <4>2 DEF Works, CreatePropertyCollector, CreateFilter, WaitForUpdatesEx,
                                ReceiveUpdate, WaitDone, WaitIgnored, WaitLost
    <3>2. Seen(w, d)
      BY <1>3, <3>1 DEF AtTask
    <3>3. QED
      BY <1>1, <1>3, <1>4, <3>2, SeenWorks
  <2>3. ASSUME StartTask(w) PROVE Seen(w, d)'
    <3>1. /\ pc[w] = "sent" /\ ~TaskRuns(d.ref) /\ task' = [task EXCEPT ![d.ref] = TaskOf(d)]
          /\ pc'[w] = "called" /\ UNCHANGED <<hostVars, local>>
      BY <1>2, <1>3, <2>3 DEF StartTask, Goto
    <3>2. TaskOf(d) \in VSphereTask
      BY <1>3, <3>1 DEF ManagerInv, Awaits, Waiting
    <3>3. task'[d.ref] = TaskOf(d) /\ TaskRuns(d.ref)' /\ InHand(w, d.ref)'
      BY <1>1, <1>2, <1>3, <2>1, <3>1, <3>2 DEF TaskRuns, InHand
    <3>4. snapshots[d.ref] \in Nat /\ (TaskOf(d) = "createSnapshot" => d.op = "createSnapshot")
      BY <1>1, <1>3 DEF World, TaskOf
    <3>5. ASSUME d.op = "createSnapshot"
          PROVE  Refused(w, d)' \/ snapshots[d.ref] + 1 >= d.nth
      <4>1. CASE d.nth > 1
        <5>1. PICK q : q = Snapshot(d.ref, d.nth - 1)
          OBVIOUS
        <5>2. Seen(w, q)
          BY <1>1, <1>3, <3>5, <4>1, <5>1 DEF Ready
        <5>3. q.ref = d.ref /\ q.nth = d.nth - 1 /\ q.onErr = "ignore" /\ TaskOf(q) = "createSnapshot"
          BY <5>1 DEF Snapshot, TaskOf
        <5>4. Refused(w, q) \/ snapshots[d.ref] >= d.nth - 1
          BY <3>1, <5>2, <5>3 DEF Seen, Brought
        <5>5. Refused(w, q) => Refused(w, d)'
          BY <1>4, <3>1, <3>5, <5>3 DEF Refused
        <5>6. QED
          BY <1>4, <3>4, <3>5, <5>4, <5>5
      <4>2. CASE d.nth <= 1
        BY <1>4, <3>4, <3>5, <4>2
      <4>3. QED
        BY <1>4, <3>5, <4>1, <4>2
    <3>6. TaskOf(d) = "createSnapshot" => Refused(w, d)' \/ snapshots'[d.ref] + 1 >= d.nth
      BY <3>1, <3>4, <3>5 DEF hostVars
    <3>7. QED
      BY <3>3, <3>6 DEF Seen
  <2>4. ASSUME pc'[w] = "updated" PROVE ~TaskRuns(d.ref)'
    <3>1. CreateFilter(w) \/ ReceiveUpdate(w)
      <4>1. pc' # pc \/ pc[w] = "updated"
        BY <2>4
      <4>2. ~(\/ SetMetricStep(w) \/ SetPropertyStep(w) \/ ClearMetricsStep(w) \/ ClearPropertiesStep(w)
              \/ SkipHost(w) \/ CallIgnored(w))
        BY <2>4 DEF SetMetricStep, SetPropertyStep, ClearMetricsStep, ClearPropertiesStep, SkipHost,
                    Upcoming, CallIgnored, AtCall, RegistryOnly
      <4>3. ~(\/ SendCall(w) \/ StartTask(w) \/ CreatePropertyCollector(w) \/ WaitForUpdatesEx(w)
              \/ WaitDone(w) \/ WaitIgnored(w))
        BY <1>2, <2>4 DEF SendCall, StartTask, CreatePropertyCollector, WaitForUpdatesEx, WaitDone,
                          WaitIgnored, AfterCall, Goto
      <4>4. QED
        BY <4>2, <4>3 DEF Works
    <3>2. ~TaskRuns(d.ref)
      BY <1>2, <1>3, <2>4, <3>1 DEF CreateFilter, ReceiveUpdate, Goto
    <3>3. UNCHANGED task
      BY <3>1, WorkWorld DEF CreateFilter, ReceiveUpdate, StartTask
    <3>4. QED
      BY <3>2, <3>3 DEF TaskRuns
  <2>5. QED
    BY <2>1, <2>2, <2>3, <2>4 DEF AtTask
<1>7. QED
  BY <1>1, <1>5, <1>6

LEMMA CourseWorks ==
    ASSUME ManagerInv, Tables, World, NEW w \in Worker, Works(w), Ahead(w), AtTask(w), Course(w)
    PROVE  Course(w)'
<1>1. /\ pc[w] \in Working /\ local[w].script # <<>>
      /\ req'[w] = req[w] /\ present' = present /\ local'[w].rest = local[w].rest
      /\ Done(w) \/ Stays(w)
  BY WorksHas, WorkMoves, WorkWorld
<1>2. PICK r : r = req[w] /\ r = req'[w]
  BY <1>1
<1>3. \A p : Finds(r, p)' = Finds(r, p)
  BY <1>1 DEF Finds
<1>4. ASSUME NEW o \in Range(local[w].script) PROVE o \in Range(local'[w].script) \/ Made(w, o)'
  <2>1. CASE Stays(w)
    BY <2>1 DEF Stays
  <2>2. CASE Done(w)
    <3>1. local[w].script \in Seq(Entries(r))
      BY <1>1, <1>2 DEF Ahead
    <3>2. Range(local[w].script) = {Doing(w)} \union Range(local'[w].script)
      BY <1>1, <2>2, <3>1, HeadAndTail DEF Done, Doing
    <3>3. \A d : d = Doing(w) => Made(w, d)'
      BY <2>2, MadeHead
    <3>4. QED
      BY <3>2, <3>3
  <2>3. QED
    BY <1>1, <2>1, <2>2
<1>5. ASSUME NEW p \in Range(r.targets)
      PROVE  \/ p \in Range(local'[w].rest)
             \/ r.op = "deactivate" /\ ~Finds(r, p)'
             \/ \A o \in Range(ScriptOf(r, p)) : o \in Range(local'[w].script) \/ Made(w, o)'
  <2>1. \/ p \in Range(local[w].rest)
        \/ r.op = "deactivate" /\ ~Finds(r, p)
        \/ \A o \in Range(ScriptOf(r, p)) : o \in Range(local[w].script) \/ Made(w, o)
    BY <1>1, <1>2 DEF Course
  <2>2. \A o : Made(w, o) => Made(w, o)'
    BY MadeWorks
  <2>3. QED
    BY <1>1, <1>3, <1>4, <2>1, <2>2
<1>6. QED
  BY <1>1, <1>2, <1>5 DEF Course

-----------------------------------------------------------------------------
(* The other steps of a request.                                           *)

LEMMA MadeSame ==
    ASSUME NEW w, NEW o, Made(w, o), UNCHANGED <<metrics, properties, task, hostVars>>,
           req'[w] = req[w], local'[w].expiry = local[w].expiry,
           local[w].refused \subseteq local'[w].refused,
           local[w].unwatched \subseteq local'[w].unwatched,
           InHand(w, o.ref) => InHand(w, o.ref)'
    PROVE  Made(w, o)'
<1>1. PICK override : override = OverrideBy(w) /\ override = OverrideBy(w)'
  BY SameRequest
<1>2. /\ (o \in Entries(req[w]))' /\ o.ref \in Entity /\ Spared(w, o)' = Spared(w, o)
  BY SameRequest DEF Made
<1>3. Refused(w, o) => Refused(w, o)'
  BY DEF Refused
<1>4. Seen(w, o) => Seen(w, o)'
  BY SeenSame
<1>5. Written(w, o)'
  <2>1. o.op = "setMetric" => HasMetric(o.ref, o.counter, override)'
    BY <1>1 DEF Made, Written, HasMetric
  <2>2. o.op = "setProperty" => HasProperty(o.ref, o.prop, override)'
    BY <1>1 DEF Made, Written, HasProperty
  <2>3. o.op = "strike" /\ o.mark # NoMark =>
          Spared(w, o)' \/ Refused(w, o)' \/ HasProperty(o.ref, o.mark, override)'
    BY <1>1, <1>2, <1>3 DEF Made, Written, HasProperty
  <2>4. QED
    BY <1>1, <2>1, <2>2, <2>3 DEF Made, Written
<1>6. QED
  BY <1>2, <1>4, <1>5 DEF Made

LEMMA CountedNumbered ==
    ASSUME NEW r, NEW s \in Seq(Entries(r)), Counted(s)
    PROVE  /\ Numbered(s, 0)
           /\ s # <<>> /\ Head(s).op = "createSnapshot" => ~(Head(s).nth > 1)
<1>1. ASSUME NEW i \in DOMAIN s
      PROVE  /\ s[i].op = "strike" => 0 + i <= s[i].nth
             /\ s[i].op = "createSnapshot" /\ i > 1 =>
                  /\ s[i - 1].op = "createSnapshot" /\ s[i].ref = s[i - 1].ref
                  /\ s[i].nth = s[i - 1].nth + 1
  <2>1. i \in Nat
    OBVIOUS
  <2>2. s[i].op = "strike" => 0 + i <= s[i].nth
    BY <2>1 DEF Counted
  <2>3. ASSUME s[i].op = "createSnapshot", i > 1
        PROVE  /\ s[i - 1].op = "createSnapshot" /\ s[i].ref = s[i - 1].ref
               /\ s[i].nth = s[i - 1].nth + 1
    <3>1. i - 1 \in DOMAIN s
      BY <2>3
    <3>2. QED
      BY <2>1, <2>3, <3>1 DEF Counted
  <2>4. QED
    BY <2>2, <2>3
<1>2. s # <<>> => Head(s) = s[1] /\ 1 \in DOMAIN s
  BY HeadAndTail
<1>3. QED
  BY <1>1, <1>2 DEF Counted, Numbered

\* The loop goes on with a target that it finds,
LEMMA NextOnCourse ==
    ASSUME ManagerInv, NEW w \in Worker, NextTarget(w), OnCourse(w)
    PROVE  OnCourse(w)'
<1> DEFINE l == [local[w] EXCEPT !.rest = Tail(@), !.struck = 0,
                                 !.script = ScriptOf(req[w], Head(local[w].rest))]
<1>1. PICK r, h : r = req[w] /\ h = Head(local[w].rest)
  OBVIOUS
<1>2. /\ l.rest = Tail(local[w].rest) /\ l.struck = 0 /\ l.script = ScriptOf(r, h)
      /\ l.expiry = local[w].expiry /\ l.refused = local[w].refused
      /\ l.unwatched = local[w].unwatched
  BY <1>1, LocalFields
<1>3. /\ local' = [local EXCEPT ![w] = l] /\ pc' = pc /\ pc[w] = "running" /\ req' = req
      /\ local[w].rest # <<>> /\ local[w].script = <<>> /\ Finds(r, h) /\ present' = present
      /\ UNCHANGED <<metrics, properties, task, hostVars>>
  BY <1>1 DEF NextTarget, AtTarget, storeVars, vsphereVars, hostVars
<1> HIDE DEF l
<1>4. local'[w] = l /\ r \in Request /\ r.op \in {"activate", "deactivate"} /\ pc[w] \in Working
  BY <1>1, <1>3 DEF ManagerInv, HandlersOK, Place, Working
<1>5. /\ r.op = "activate" => r.id \in registerAllScenarios
      /\ local[w].rest \in Seq(Range(r.targets)) /\ local[w].expiry \in Nat
  BY <1>1, <1>4 DEF OnCourse, Ahead
<1>6. /\ h \in Range(r.targets) /\ Tail(local[w].rest) \in Seq(Range(r.targets))
      /\ Range(local[w].rest) = {h} \union Range(Tail(local[w].rest))
  BY <1>1, <1>3, <1>5, HeadAndTail
<1>7. PICK s : s = ScriptOf(r, h)
  OBVIOUS
<1>8. /\ s \in Seq(Entries(r)) /\ Counted(s)
      /\ \A i \in DOMAIN s : s[i].op # "panic" => s[i].ref \in Entity
  BY <1>3, <1>4, <1>5, <1>6, <1>7, ScriptType
<1>9. /\ Numbered(s, 0)
      /\ s # <<>> /\ Head(s).op = "createSnapshot" => ~(Head(s).nth > 1)
  BY <1>8, CountedNumbered
<1>10. Ahead(w)'
  BY <1>1, <1>2, <1>3, <1>4, <1>5, <1>6, <1>7, <1>8, <1>9 DEF Ahead
<1>11. Ready(w)'
  BY <1>2, <1>3, <1>4, <1>7, <1>9 DEF Ready, Doing
<1>12. AtTask(w)'
  BY <1>3 DEF AtTask
<1>13. Course(w)'
  <2>1. \A o : Made(w, o) => Made(w, o)'
    BY <1>2, <1>3, <1>4, MadeSame DEF InHand
  <2>2. \A p : Finds(r, p)' = Finds(r, p)
    BY <1>3 DEF Finds
  <2>3. Range(<<>>) = {}
    BY DEF Range
  <2>4. ASSUME NEW p \in Range(r.targets)
        PROVE  \/ p \in Range(l.rest)
               \/ r.op = "deactivate" /\ ~Finds(r, p)'
               \/ \A o \in Range(ScriptOf(r, p)) : o \in Range(l.script) \/ Made(w, o)'
    <3>1. \/ p \in Range(local[w].rest)
          \/ r.op = "deactivate" /\ ~Finds(r, p)
          \/ \A o \in Range(ScriptOf(r, p)) : Made(w, o)
      BY <1>1, <1>3, <1>4, <2>3 DEF OnCourse, Course
    <3>2. QED
      BY <1>2, <1>6, <2>1, <2>2, <3>1
  <2>5. QED
    BY <1>1, <1>3, <1>4, <2>4 DEF Course
<1>14. QED
  BY <1>10, <1>11, <1>12, <1>13 DEF OnCourse

\* and a deactivation after one that it does not find.
LEMMA SkipOnCourse ==
    ASSUME ManagerInv, NEW w \in Worker, SkipTarget(w), OnCourse(w)
    PROVE  OnCourse(w)'
<1> DEFINE l == [local[w] EXCEPT !.rest = Tail(@)]
<1>1. PICK r, h : r = req[w] /\ h = Head(local[w].rest)
  OBVIOUS
<1>2. /\ l.rest = Tail(local[w].rest) /\ l.struck = local[w].struck /\ l.script = local[w].script
      /\ l.expiry = local[w].expiry /\ l.refused = local[w].refused
      /\ l.unwatched = local[w].unwatched
  BY <1>1, LocalFields
<1>3. /\ local' = [local EXCEPT ![w] = l] /\ pc' = pc /\ pc[w] = "running" /\ req' = req
      /\ local[w].rest # <<>> /\ local[w].script = <<>> /\ ~Finds(r, h) /\ present' = present
      /\ r.op = "deactivate" /\ UNCHANGED <<metrics, properties, task, hostVars>>
  BY <1>1 DEF SkipTarget, AtTarget, storeVars, vsphereVars, hostVars
<1> HIDE DEF l
<1>4. local'[w] = l /\ pc[w] \in Working
  BY <1>1, <1>3 DEF ManagerInv, HandlersOK, Working
<1>5. local[w].rest \in Seq(Range(r.targets))
  BY <1>1, <1>4 DEF OnCourse, Ahead
<1>6. /\ h \in Range(r.targets) /\ Tail(local[w].rest) \in Seq(Range(r.targets))
      /\ Range(local[w].rest) = {h} \union Range(Tail(local[w].rest))
  BY <1>1, <1>3, <1>5, HeadAndTail
<1>7. Ahead(w)'
  BY <1>1, <1>2, <1>3, <1>4, <1>6 DEF OnCourse, Ahead
<1>8. Ready(w)' /\ AtTask(w)'
  BY <1>2, <1>3, <1>4 DEF Ready, AtTask
<1>9. Course(w)'
  <2>1. \A o : Made(w, o) => Made(w, o)'
    BY <1>2, <1>3, <1>4, MadeSame DEF InHand
  <2>2. \A p : Finds(r, p)' = Finds(r, p)
    BY <1>3 DEF Finds
  <2>3. Range(<<>>) = {}
    BY DEF Range
  <2>4. ASSUME NEW p \in Range(r.targets)
        PROVE  \/ p \in Range(l.rest)
               \/ r.op = "deactivate" /\ ~Finds(r, p)'
               \/ \A o \in Range(ScriptOf(r, p)) : o \in Range(l.script) \/ Made(w, o)'
    <3>1. \/ p \in Range(local[w].rest)
          \/ r.op = "deactivate" /\ ~Finds(r, p)
          \/ \A o \in Range(ScriptOf(r, p)) : Made(w, o)
      BY <1>1, <1>3, <1>4, <2>3 DEF OnCourse, Course
    <3>2. QED
      BY <1>2, <1>3, <1>6, <2>1, <2>2, <3>1
  <2>5. QED
    BY <1>1, <1>3, <1>4, <2>4 DEF Course
<1>10. QED
  BY <1>7, <1>8, <1>9 DEF OnCourse

\* What a goroutine that holds mu may do.
LEMMA LockedShape ==
    ASSUME NEW u, Locked(u)
    PROVE  \/ Works(u) \/ NextTarget(u) \/ SkipTarget(u)
           \/ ClearRegistry(u)
           \/ pc[u] \in Holding /\ \E code : Return(u, code)
BY DEF Locked, Works, TargetNotFound, Complete, PanicStep, CallFails, WaitFails, ClearActive,
       AtTarget, Upcoming, AtCall, WaitLost, Holding, Working, Waiting

LEMMA LockedHolds ==
    ASSUME ManagerInv, NEW u \in Worker, Locked(u)
    PROVE  pc[u] \in Holding
BY LockedShape, WorksHas DEF NextTarget, SkipTarget, AtTarget, ClearRegistry, Holding, Working

\* A request that returns, or that clears the registry, is not under way.
LEMMA StopsWorking ==
    ASSUME ManagerInv, NEW w \in Worker, NEW u \in Worker,
           ClearRegistry(u) \/ \E code : Return(u, code), pc'[w] \in Working
    PROVE  w # u
BY DEF ManagerInv, HandlersOK, ClearRegistry, Return, Reply, Working, Waiting

\* The step leaves alone what w, in the middle of its request, relies on.
Still(w) ==
    /\ UNCHANGED <<metrics, properties, task, hostVars>>
    /\ pc'[w] = pc[w] /\ req'[w] = req[w] /\ local'[w] = local[w]
    /\ present' \subseteq present

LEMMA Untouched ==
    ASSUME ManagerInv, NEW w \in Worker, pc[w] \in Working, [Next]_vars, ~Locked(w)
    PROVE  Still(w) \/ \E e \in Entity : RunTask(e)
<1> USE DEF storeVars, vsphereVars, hostVars
<1>1. mu = w /\ w # Free /\ pc[w] \in Holding
  BY ManagerAssumption DEF ManagerInv, HolderInvariant, Holding
<1>2. ASSUME NEW u \in Worker, NEW r \in Request, Arrive(u, r) PROVE Still(w)
  <2>1. u # w
    BY <1>2 DEF Arrive, Working, Waiting
  <2>2. QED
    BY <1>2, <2>1 DEF Arrive, Still, ManagerInv, HandlersOK
<1>3. ASSUME NEW u \in Worker, Reject(u) PROVE Still(w)
  <2>1. u # w
    BY <1>3 DEF Reject, Working, Waiting
  <2>2. QED
    BY <1>3, <2>1 DEF Reject, Reply, Still, ManagerInv, HandlersOK
<1>4. ASSUME NEW u \in Worker, Acquire(u) PROVE FALSE
  <2>1. mu = Free
    BY <1>4 DEF Acquire, ListActive, ActivateUnknown, Activate, DeactivateInactive, Deactivate,
                ClearAll, CanEnter
  <2>2. QED
    BY <1>1, <2>1
<1>5. ASSUME NEW u \in Worker, Locked(u) PROVE FALSE
  <2>1. u = w
    BY <1>1, <1>5, LockedHolds, OneInside
  <2>2. QED
    BY <1>5, <2>1
<1>6. ASSUME NEW s, ServeFrom(s) \/ Logout(s) PROVE Still(w)
  BY <1>6 DEF ServeFrom, Logout, SessionsOnly, Still, handlerVars
<1>7. CASE Tick \/ (\E p \in Renamable : RenameTask(p)) \/ UNCHANGED vars
  BY <1>7 DEF Tick, Registry!Tick, RenameTask, Still, handlerVars, vars
<1>8. QED
  BY <1>2, <1>3, <1>4, <1>5, <1>6, <1>7 DEF Next

LEMMA StillOnCourse ==
    ASSUME NEW w, OnCourse(w), Still(w)
    PROVE  OnCourse(w)'
<1>1. /\ UNCHANGED <<metrics, properties, task, hostVars>>
      /\ pc'[w] = pc[w] /\ req'[w] = req[w] /\ local'[w] = local[w] /\ present' \subseteq present
  BY DEF Still
<1>2. PICK r, l : r = req[w] /\ r = req'[w] /\ l = local[w] /\ l = local'[w]
  BY <1>1
<1>3. \A o : Seen(w, o) => Seen(w, o)'
  BY <1>1, SeenSame DEF InHand, Doing
<1>4. Ahead(w)'
  BY <1>1, <1>2 DEF OnCourse, Ahead
<1>5. Ready(w)' /\ AtTask(w)'
  BY <1>1, <1>3 DEF OnCourse, Ready, AtTask, Doing, TaskRuns
<1>6. Course(w)'
  <2>1. \A o : Made(w, o) => Made(w, o)'
    BY <1>1, MadeSame DEF InHand, Doing
  <2>2. \A p : ~Finds(r, p) => ~Finds(r, p)'
    BY <1>1 DEF Finds
  <2>3. QED
    BY <1>1, <1>2, <2>1, <2>2 DEF OnCourse, Course
<1>7. QED
  BY <1>4, <1>5, <1>6 DEF OnCourse

LEMMA TaskOnCourse ==
    ASSUME ManagerInv, World, NEW w \in Worker, OnCourse(w), NEW e \in Entity, RunTask(e)
    PROVE  OnCourse(w)'
<1>1. UNCHANGED <<metrics, properties, pc, req, local, present>>
  BY RunsAlone DEF storeVars, handlerVars
<1>2. PICK r : r = req[w] /\ r = req'[w]
  BY <1>1
<1>3. ASSUME NEW o, o.ref \in Entity, IsCall(o), o.op = "createSnapshot" => o.nth \in Nat, Seen(w, o)
      PROVE  Seen(w, o)'
  BY <1>3, SeenTask
<1>4. Ahead(w)'
  BY <1>1 DEF OnCourse, Ahead
<1>5. Ready(w)'
  <2> SUFFICES ASSUME pc[w] \in Working, local[w].script # <<>>, NEW d, d = Doing(w),
                      d.op = "createSnapshot", d.nth > 1
               PROVE  Seen(w, Snapshot(d.ref, d.nth - 1))'
    BY <1>1 DEF Ready, Doing
  <2>1. PICK q : q = Snapshot(d.ref, d.nth - 1)
    OBVIOUS
  <2>2. Seen(w, q)
    BY <2>1 DEF OnCourse, Ready
  <2>3. d.ref \in Entity /\ d.nth \in Nat
    BY EntryAhead, EntryNth DEF OnCourse
  <2>4. q.ref \in Entity /\ q.nth \in Nat /\ IsCall(q)
    BY <2>1, <2>3 DEF Snapshot, IsCall, TaskOf, VSphereTask
  <2>5. Seen(w, q)'
    BY <1>3, <2>2, <2>4
  <2>6. QED
    BY <2>1, <2>5
<1>6. AtTask(w)'
  <2> SUFFICES ASSUME pc[w] \in {"called", "created", "listening", "blocked", "updated"},
                      NEW d, d = Doing(w)
               PROVE  Seen(w, d)' /\ (pc[w] = "updated" => ~TaskRuns(d.ref)')
    BY <1>1 DEF AtTask, Doing
  <2>1. pc[w] \in Working /\ local[w].script # <<>> /\ IsCall(d)
    BY DEF ManagerInv, Awaits, IsCall, Working, Waiting
  <2>2. d \in Entries(req[w]) /\ d.op # "panic"
    BY <2>1, EntryAhead DEF OnCourse, IsCall, TaskOf, VSphereTask
  <2>3. d.ref \in Entity /\ (d.op = "createSnapshot" => d.nth \in Nat)
    BY <2>1, <2>2, EntryAhead, EntryNth DEF OnCourse
  <2>4. Seen(w, d)'
    BY <1>3, <2>1, <2>3 DEF OnCourse, AtTask
  <2>5. ASSUME pc[w] = "updated" PROVE ~TaskRuns(d.ref)'
    BY <2>3, <2>5, TaskEffect DEF OnCourse, AtTask, TaskRuns
  <2>6. QED
    BY <2>4, <2>5
<1>7. Course(w)'
  <2>1. ASSUME NEW o, Made(w, o) PROVE Made(w, o)'
    <3>1. o \in Entries(r) /\ o.ref \in Entity /\ Spared(w, o)' = Spared(w, o)
      BY <1>1, <1>2, <2>1, SameRequest DEF Made
    <3>2. o.op = "createSnapshot" => o.nth \in Nat
      BY <3>1, EntryNth
    <3>3. IsCall(o) => Spared(w, o)' \/ Seen(w, o)'
      BY <1>3, <2>1, <3>1, <3>2 DEF Made
    <3>4. Written(w, o)'
      BY <1>1, <2>1, <3>1 DEF Made, Written, HasMetric, HasProperty, Refused, OverrideBy, Stamp
    <3>5. QED
      BY <1>2, <3>1, <3>3, <3>4 DEF Made
  <2>2. \A p : ~Finds(r, p) => ~Finds(r, p)'
    BY <1>1 DEF Finds
  <2>3. QED
    BY <1>1, <1>2, <2>1, <2>2 DEF OnCourse, Course
<1>8. QED
  BY <1>4, <1>5, <1>6, <1>7 DEF OnCourse

\* A request begins at its first target.
LEMMA Begins ==
    ASSUME ManagerInv, World, NEW w \in Worker, pc[w] \notin Working, pc'[w] \in Working, [Next]_vars
    PROVE  OnCourse(w)'
<1>1. \A u \in Worker, r \in Request : ~Arrive(u, r)
  BY DEF Arrive, ManagerInv, HandlersOK, Working, Waiting
<1>2. \A u \in Worker : ~Reject(u)
  BY DEF Reject, Reply, ManagerInv, HandlersOK, Working, Waiting
<1>3. ASSUME NEW u \in Worker, Locked(u) PROVE FALSE
  <2>1. CASE Works(u) \/ NextTarget(u) \/ SkipTarget(u)
    <3>1. pc[u] \in Working /\ pc' = [pc EXCEPT ![u] = pc'[u]]
      BY <2>1, WorkMoves DEF Moves, NextTarget, SkipTarget, AtTarget, Working, ManagerInv, HandlersOK
    <3>2. QED
      BY <3>1 DEF ManagerInv, HandlersOK
  <2>2. CASE ClearRegistry(u) \/ \E code : Return(u, code)
    BY <2>2 DEF ClearRegistry, Return, Reply, ManagerInv, HandlersOK, Working, Waiting
  <2>3. QED
    BY <1>3, <2>1, <2>2, LockedShape
<1>4. UNCHANGED pc => FALSE
  OBVIOUS
<1>5. /\ ~(Tick \/ (\E p \in Renamable : RenameTask(p)) \/ UNCHANGED vars)
      /\ ~(\E e \in Entity : RunTask(e)) /\ \A s : ~ServeFrom(s) /\ ~Logout(s)
  BY <1>4, RunsAlone DEF Tick, ServeFrom, Logout, SessionsOnly, RenameTask, handlerVars, vars
<1>6. PICK u \in Worker : Acquire(u)
  BY <1>1, <1>2, <1>3, <1>5 DEF Next
<1>7. ~(ListActive(u) \/ ActivateUnknown(u) \/ DeactivateInactive(u) \/ ClearAll(u))
  BY DEF ListActive, ActivateUnknown, DeactivateInactive, ClearAll, Reply, ManagerInv, HandlersOK,
         Working, Waiting
<1>8. \E x : /\ Enter(u, x) /\ x \in Nat /\ req[u] \in Request
             /\ req[u].op = "activate" => req[u].id \in registerAllScenarios
  <2>1. CASE Activate(u)
    <3>1. PICK x : Enter(u, x) /\ x = IF req[u].duration > 0 THEN now + req[u].duration ELSE 0
      BY <2>1 DEF Activate, Registry!Never
    <3>2. req[u] \in Request /\ req[u].id \in registerAllScenarios
      BY <2>1 DEF Activate, CanEnter, ManagerInv, Place
    <3>3. req[u].duration \in Int
      BY <3>2, ManagerAssumption
    <3>4. x \in Nat
      BY <3>1, <3>3 DEF World
    <3>5. QED
      BY <3>1, <3>2, <3>4
  <2>2. CASE Deactivate(u)
    <3>1. Enter(u, 0) /\ req[u] \in Request /\ req[u].op = "deactivate"
      BY <2>2 DEF Deactivate, Registry!Never, CanEnter, ManagerInv, Place
    <3>2. QED
      BY <3>1
  <2>3. QED
    BY <1>6, <1>7, <2>1, <2>2 DEF Acquire
<1>9. PICK x : /\ Enter(u, x) /\ x \in Nat /\ req[u] \in Request
               /\ req[u].op = "activate" => req[u].id \in registerAllScenarios
  BY <1>8
<1>10. /\ u = w /\ pc'[w] = "running" /\ req' = req
       /\ local'[w] = [NotRunning EXCEPT !.rest = req[w].targets, !.expiry = x]
  BY <1>9 DEF Enter, ManagerInv, HandlersOK
<1>11. PICK r : r = req[w] /\ r = req'[w]
  BY <1>10
<1>12. /\ local'[w].rest = r.targets /\ local'[w].script = <<>> /\ local'[w].struck = 0
       /\ local'[w].expiry = x
  BY <1>10, <1>11 DEF NotRunning
<1>13. r.targets \in Seq(Range(r.targets))
  <2>1. r.targets \in Seq(Path)
    BY <1>9, <1>10, <1>11, ManagerAssumption
  <2>2. QED
    BY <2>1, SeqDef DEF Range
<1>14. Ahead(w)'
  <2>1. <<>> \in Seq(Entries(r)) /\ DOMAIN <<>> = {} /\ Numbered(<<>>, 0)
    BY DEF Numbered
  <2>2. r.op = "activate" => r.id \in registerAllScenarios
    BY <1>9, <1>10, <1>11
  <2>3. QED
    BY <1>9, <1>11, <1>12, <1>13, <2>1, <2>2 DEF Ahead
<1>15. Course(w)' /\ Ready(w)' /\ AtTask(w)'
  BY <1>10, <1>11, <1>12 DEF Course, Ready, AtTask
<1>16. QED
  BY <1>14, <1>15 DEF OnCourse

LEMMA CourseStep ==
    ASSUME ManagerInv, Tables, World, [Next]_vars, NEW w \in Worker, OnCourse(w)
    PROVE  OnCourse(w)'
<1>1. CASE pc'[w] \notin Working
  BY <1>1 DEF OnCourse, Ahead, Course, Ready, AtTask, Working, Waiting
<1>2. CASE pc'[w] \in Working /\ pc[w] \notin Working
  BY <1>2, Begins
<1>3. CASE pc[w] \in Working /\ ~Locked(w)
  BY <1>3, Untouched, StillOnCourse, TaskOnCourse
<1>4. CASE pc'[w] \in Working /\ Locked(w)
  <2>1. CASE Works(w)
    BY <2>1, AheadWorks, CourseWorks, ReadyWorks, AtTaskWorks DEF OnCourse
  <2>2. CASE NextTarget(w) \/ SkipTarget(w)
    BY <2>2, NextOnCourse, SkipOnCourse
  <2>3. QED
    BY <1>4, <2>1, <2>2, LockedShape, StopsWorking
<1>5. QED
  BY <1>1, <1>2, <1>3, <1>4

-----------------------------------------------------------------------------
(* The whole invariant.                                                    *)

LEMMA WorldStep == ManagerInv /\ World /\ [Next]_vars => World'
<1> SUFFICES ASSUME ManagerInv, World, [Next]_vars PROVE World'
  OBVIOUS
<1> USE DEF storeVars, vsphereVars, hostVars
<1>1. CASE UNCHANGED <<now, session, present, task, connected, maintenance, powered, snapshots>>
  BY <1>1 DEF World
<1>2. ASSUME NEW w \in Worker, NEW r \in Request, Arrive(w, r) PROVE World'
  BY <1>1, <1>2 DEF Arrive
<1>3. ASSUME NEW w \in Worker, Reject(w) \/ Acquire(w) PROVE World'
  BY <1>1, <1>3 DEF Reject, Acquire, ListActive, ActivateUnknown, Activate, DeactivateInactive,
                    Deactivate, ClearAll, Enter
<1>4. ASSUME NEW w \in Worker, Locked(w) PROVE World'
  <2>1. CASE StartTask(w)
    <3>1. TaskOf(Doing(w)) \in VSphereTask
      BY <2>1 DEF StartTask, ManagerInv, Awaits, Waiting
    <3>2. /\ task' = [task EXCEPT ![Doing(w).ref] = TaskOf(Doing(w))]
          /\ UNCHANGED <<now, session, present, connected, maintenance, powered, snapshots>>
      BY <2>1 DEF StartTask
    <3>3. task' \in [Entity -> VSphereTask \union {"none", "error"}]
      BY <3>1, <3>2 DEF World
    <3>4. QED
      BY <3>2, <3>3 DEF World
  <2>2. CASE Works(w) /\ ~StartTask(w)
    BY <1>1, <2>2, WorkWorld
  <2>3. CASE \/ NextTarget(w) \/ SkipTarget(w) \/ ClearRegistry(w) \/ TargetNotFound(w) \/ Complete(w)
             \/ PanicStep(w) \/ CallFails(w) \/ WaitFails(w) \/ ClearActive(w)
    BY <1>1, <2>3 DEF NextTarget, SkipTarget, ClearRegistry, Registry!ClearAll, TargetNotFound, Complete,
                      PanicStep, CallFails, WaitFails, ClearActive
  <2>4. QED
    BY <1>4, <2>1, <2>2, <2>3 DEF Locked, Works
<1>5. CASE Tick
  BY <1>5 DEF Tick, Registry!Tick, World
<1>6. ASSUME NEW e \in Entity, RunTask(e) PROVE World'
  BY <1>6, TaskEffect
<1>7. ASSUME NEW s \in Session \union {NoSession}, ServeFrom(s) PROVE World'
  BY <1>7 DEF ServeFrom, SessionsOnly, World
<1>8. ASSUME NEW s, Logout(s) PROVE World'
  BY <1>8 DEF Logout, SessionsOnly, World
<1>9. ASSUME NEW p \in Renamable, RenameTask(p) PROVE World'
  BY <1>9 DEF RenameTask, World
<1>10. CASE UNCHANGED vars
  BY <1>1, <1>10 DEF vars
<1>11. QED
  BY <1>2, <1>3, <1>4, <1>5, <1>6, <1>7, <1>8, <1>9, <1>10 DEF Next

\* Who writes an override, where and with what stamp.
LEMMA Writer ==
    ASSUME ManagerInv, NEW w \in Worker, pc[w] \in Working, local[w].script # <<>>, Ahead(w),
           NEW d, d = Doing(w), d.op \in {"setMetric", "setProperty", "strike"}
    PROVE  /\ d.ref \in Entity /\ d.ref \in MarkedBy(OverrideBy(w).value)
           /\ OverrideBy(w) \in Registry!Override
           /\ d.op = "setMetric" => <<d.counter, "">> \in Int \X {""}
           /\ d.op = "setProperty" => d.prop \in PropertyPath
           /\ d.op = "strike" /\ d.mark # NoMark => d.mark \in PropertyPath
<1>1. d \in Entries(req[w]) /\ d.ref \in Entity
  BY EntryAhead
<1>2. req[w].op = "activate"
  BY <1>1 DEF ManagerInv, Place, Entries, UndoOf, UndoTask
<1>3. d \in Deeds(req[w]) /\ req[w].id \in registerAllScenarios /\ local[w].expiry \in Nat
  BY <1>1, <1>2 DEF Ahead, Entries
<1>4. req[w].targets \in Seq(Path)
  BY ManagerAssumption DEF ManagerInv, Place, Working, Waiting
<1>5. OverrideBy(w) \in Registry!Override
  BY <1>3, <1>4 DEF OverrideBy, Stamp, Registry!Override
<1>6. OverrideBy(w).value = <<req[w].id, req[w].targets>>
  BY DEF OverrideBy, Stamp
<1>7. QED
  BY <1>1, <1>3, <1>5, <1>6, DeedShape

LEMMA PutPlaced ==
    ASSUME NEW e, NEW keys, NEW m, Placed(e, m, keys), NEW k \in keys,
           NEW o \in Registry!Override, e \in MarkedBy(o.value)
    PROVE  Placed(e, Registry!Put(m, k, o), keys)
BY DEF Placed, Registry!Put, Registry!MapOf

LEMMA MarkedMetric ==
    ASSUME Tables, Marked, NEW d, d.ref \in Entity, NEW k \in Int \X {""},
           NEW o \in Registry!Override, d.ref \in MarkedBy(o.value),
           NEW m, m = Registry!Put(metrics[d.ref], k, o),
           metrics' = [metrics EXCEPT ![d.ref] = m], properties' = properties
    PROVE  Marked'
<1>1. Placed(d.ref, metrics'[d.ref], Int \X {""})
  <2>1. Placed(d.ref, Registry!Put(metrics[d.ref], k, o), Int \X {""})
    BY PutPlaced DEF Marked
  <2>2. metrics'[d.ref] = Registry!Put(metrics[d.ref], k, o)
    BY DEF Tables
  <2>3. QED
    BY <2>1, <2>2
<1>2. \A e \in Entity \ {d.ref} : metrics'[e] = metrics[e]
  BY DEF Tables
<1>3. QED
  BY <1>1, <1>2 DEF Marked, Placed

LEMMA MarkedProperty ==
    ASSUME Tables, Marked, NEW d, d.ref \in Entity, NEW k \in PropertyPath,
           NEW o \in Registry!Override, d.ref \in MarkedBy(o.value),
           NEW m, m = Registry!Put(properties[d.ref], k, o),
           properties' = [properties EXCEPT ![d.ref] = m], metrics' = metrics
    PROVE  Marked'
<1>1. Placed(d.ref, properties'[d.ref], PropertyPath)
  <2>1. Placed(d.ref, Registry!Put(properties[d.ref], k, o), PropertyPath)
    BY PutPlaced DEF Marked
  <2>2. properties'[d.ref] = Registry!Put(properties[d.ref], k, o)
    BY DEF Tables
  <2>3. QED
    BY <2>1, <2>2
<1>2. \A e \in Entity \ {d.ref} : properties'[e] = properties[e]
  BY DEF Tables
<1>3. QED
  BY <1>1, <1>2 DEF Marked, Placed

LEMMA MarkedStep == ManagerInv /\ FinalInv /\ EffectInv /\ [Next]_vars => Marked'
<1> SUFFICES ASSUME ManagerInv, FinalInv, EffectInv, [Next]_vars PROVE Marked'
  OBVIOUS
<1>1. Tables /\ Marked /\ \A w \in Worker : Ahead(w)
  BY DEF FinalInv, EffectInv, OnCourse
<1>2. \A e, keys : Placed(e, Registry!EmptyMap, keys)
  BY DEF Placed, Registry!MapOf, Registry!EmptyMap
<1>3. CASE UNCHANGED <<metrics, properties>>
  BY <1>1, <1>3 DEF Marked, Placed, Registry!MapOf, Registry!Override
<1>4. ASSUME NEW w \in Worker, Works(w) PROVE Marked'
  <2>1. pc[w] \in Working /\ local[w].script # <<>>
    BY <1>4, WorksHas
  <2>2. PICK d, o : d = Doing(w) /\ o = OverrideBy(w)
    OBVIOUS
  <2>3. ASSUME d.op \in {"setMetric", "setProperty", "strike"}
        PROVE  /\ d.ref \in Entity /\ d.ref \in MarkedBy(o.value) /\ o \in Registry!Override
               /\ d.op = "setMetric" => <<d.counter, "">> \in Int \X {""}
               /\ d.op = "setProperty" => d.prop \in PropertyPath
               /\ d.op = "strike" /\ d.mark # NoMark => d.mark \in PropertyPath
    BY <1>1, <2>1, <2>2, <2>3, Writer
  <2>4. CASE SetMetricStep(w)
    <3>1. d.op = "setMetric" /\ properties' = properties
          /\ metrics' = [metrics EXCEPT ![d.ref] =
                            Registry!Put(metrics[d.ref], <<d.counter, "">>, o)]
      BY <2>2, <2>4 DEF SetMetricStep, Upcoming, Registry!SetMetric
    <3>2. QED
      BY <1>1, <2>3, <3>1, MarkedMetric
  <2>5. CASE SetPropertyStep(w)
    <3>1. d.op = "setProperty" /\ metrics' = metrics
          /\ properties' = [properties EXCEPT ![d.ref] =
                               Registry!Put(properties[d.ref], d.prop, o)]
      BY <2>2, <2>5 DEF SetPropertyStep, Upcoming, Registry!SetProperty
    <3>2. QED
      BY <1>1, <2>3, <3>1, MarkedProperty
  <2>6. CASE WaitDone(w) \/ WaitIgnored(w)
    <3>1. \E e : AfterCall(w, e)
      BY <2>6 DEF WaitDone, WaitIgnored
    <3>2. CASE d.op = "strike" /\ d.mark # NoMark
      <4>1. metrics' = metrics
            /\ properties' = [properties EXCEPT ![d.ref] =
                                 Registry!Put(properties[d.ref], d.mark, o)]
        BY <2>2, <3>1, <3>2 DEF AfterCall, Registry!SetProperty
      <4>2. QED
        BY <1>1, <2>3, <3>2, <4>1, MarkedProperty
    <3>3. CASE ~(d.op = "strike" /\ d.mark # NoMark)
      BY <1>3, <2>2, <3>1, <3>3 DEF AfterCall, storeVars
    <3>4. QED
      BY <3>2, <3>3
  <2>7. CASE ClearMetricsStep(w)
    BY <1>1, <1>2, <2>7 DEF ClearMetricsStep, Registry!ClearMetrics, Marked, Tables, Placed,
                            Registry!MapOf, Registry!Override
  <2>8. CASE ClearPropertiesStep(w)
    BY <1>1, <1>2, <2>8 DEF ClearPropertiesStep, Registry!ClearProperties, Marked, Tables, Placed,
                            Registry!MapOf, Registry!Override
  <2>9. QED
    BY <1>3, <1>4, <2>4, <2>5, <2>6, <2>7, <2>8, WorkWorld
<1>5. ASSUME NEW w \in Worker, ClearRegistry(w) PROVE Marked'
  BY <1>2, <1>5 DEF ClearRegistry, Registry!ClearAll, Marked, Placed, Registry!MapOf,
                    Registry!Override
<1>6. ASSUME NEW w \in Worker, Locked(w), ~Works(w), ~ClearRegistry(w)
      PROVE  UNCHANGED <<metrics, properties>>
  BY <1>6 DEF Locked, Works, ClearActive, NextTarget, TargetNotFound, SkipTarget, Complete, PanicStep,
              CallFails, WaitFails, storeVars
<1>7. ASSUME NEW w \in Worker, Reject(w) \/ Acquire(w) PROVE UNCHANGED <<metrics, properties>>
  BY <1>7 DEF Reject, Acquire, ListActive, ActivateUnknown, Activate, DeactivateInactive, Deactivate,
              ClearAll, Enter, storeVars
<1>8. ASSUME NEW e \in Entity, RunTask(e) PROVE UNCHANGED <<metrics, properties>>
  BY <1>8, RunsAlone DEF storeVars
<1>9. CASE \/ \E w \in Worker, r \in Request : Arrive(w, r)
           \/ Tick \/ (\E s : ServeFrom(s) \/ Logout(s))
           \/ (\E p \in Renamable : RenameTask(p)) \/ UNCHANGED vars
  <2>1. UNCHANGED <<metrics, properties>>
    BY <1>9 DEF Arrive, Tick, Registry!Tick, ServeFrom, Logout, SessionsOnly, RenameTask, storeVars,
                vars
  <2>2. QED
    BY <1>3, <2>1
<1>10. QED
  BY <1>3, <1>4, <1>5, <1>6, <1>7, <1>8, <1>9 DEF Next

LEMMA EffectStep == ManagerInv /\ FinalInv /\ EffectInv /\ [Next]_vars => EffectInv'
<1> SUFFICES ASSUME ManagerInv, FinalInv, EffectInv, [Next]_vars PROVE EffectInv'
  OBVIOUS
<1>1. World' /\ Marked'
  BY WorldStep, MarkedStep DEF EffectInv
<1>2. \A w \in Worker : OnCourse(w)'
  BY CourseStep DEF FinalInv, EffectInv
<1>3. QED
  BY <1>1, <1>2 DEF EffectInv

LEMMA EffectAlways == Spec => [](ManagerInv /\ FinalInv /\ EffectInv)
BY ManagerInit, ManagerStep, FinalInit, FinalStep, EffectInit, EffectStep, PTL DEF Spec

-----------------------------------------------------------------------------
(* What holds when a request is answered.                                  *)

LEMMA SucceedsIsComplete ==
    ASSUME ManagerInv, [Next]_vars, NEW w \in Worker, NEW op, Succeeds(w, op)
    PROVE  Complete(w)
<1>1. pc[w] \in Working /\ pc'[w] = "idle" /\ answer'[w].code = "ok"
  BY DEF Succeeds
<1>2. Locked(w)
  <2>1. pc[w] # "idle"
    BY <1>1 DEF Working, Waiting
  <2>2. ~Still(w) /\ \A e : ~RunTask(e)
    BY <1>1, <2>1, RunsAlone DEF Still, handlerVars
  <2>3. QED
    BY <1>1, <2>2, Untouched
<1>3. \A code : Return(w, code) => code = "ok"
  BY <1>1 DEF Return, Reply, ManagerInv, HandlersOK
<1>4. ~(TargetNotFound(w) \/ PanicStep(w) \/ CallFails(w) \/ WaitFails(w))
  BY <1>3 DEF TargetNotFound, PanicStep, CallFails, WaitFails
<1>5. ~(ClearRegistry(w) \/ ClearActive(w))
  BY <1>1 DEF ClearRegistry, ClearActive, Working, Waiting
<1>6. ~Works(w)
  BY <1>1, WorkMoves DEF Moves, Working, Waiting
<1>7. ~(NextTarget(w) \/ SkipTarget(w))
  BY <1>1 DEF NextTarget, SkipTarget, Working, Waiting
<1>8. QED
  BY <1>2, <1>4, <1>5, <1>6, <1>7 DEF Locked, Works

\* A maintenance mode that cannot be entered ends its activation.
LEMMA MaintenanceDeed ==
    ASSUME NEW r, NEW o \in Deeds(r), o.op = "enterMaintenance"
    PROVE  o.onErr = "return" /\ o.onWait = "return"
<1>1. PICK p \in Range(r.targets) : o \in Deed(r.id, p)
  BY DEF Deeds
<1>2. o \in Calling(r.id, Reach(r.id, p))
  BY <1>1 DEF Deed, Sets
<1>3. r.id = "host_maintenance" /\ o.onErr = OnErr(r.id) /\ o.onWait = OnWait(r.id)
  BY <1>2 DEF Calling, Acts
<1>4. QED
  BY <1>3 DEF OnErr, OnWait, HostScenario

\* What an activation has made when it is at no call is in effect.
LEMMA MadeInEffect ==
    ASSUME World, NEW w \in Worker, pc[w] = "running", req[w].op = "activate",
           NEW o, Made(w, o), NEW r, r = req[w], NEW override, override = OverrideBy(w),
           NEW l, l = local[w]
    PROVE  InEffect(r, o, override, l)
<1>1. o \in Deeds(r) /\ o.ref \in Entity
  BY DEF Made, Entries
<1>2. o.op \in {"setMetric", "setProperty", "disconnect", "createSnapshot",
                "enterMaintenance", "powerOff", "strike"}
  <2>1. o.op # "panic"
    <3>1. PICK p \in Range(r.targets) : o \in Deed(r.id, p)
      BY <1>1 DEF Deeds
    <3>2. QED
      BY <1>1, <3>1, InventoryAssumption DEF Deed, Sets, Calling
  <2>2. QED
    BY <1>1, <2>1, DeedShape
<1>3. /\ o.op = "setMetric" => HasMetric(o.ref, o.counter, override)
      /\ o.op = "setProperty" => HasProperty(o.ref, o.prop, override)
      /\ o.op = "strike" /\ o.mark # NoMark =>
           Spared(w, o) \/ Refused(w, o) \/ HasProperty(o.ref, o.mark, override)
      /\ IsCall(o) => Spared(w, o) \/ Seen(w, o)
  BY DEF Made, Written
<1>4. ~InHand(w, o.ref)
  BY DEF InHand
<1>5. ASSUME Seen(w, o), IsCall(o)
      PROVE  \/ o.onErr = "ignore" /\ o.ref \in l.refused
             \/ /\ ~TaskRuns(o.ref) => Brought(o)
                /\ TaskRuns(o.ref) => o.onWait = "ignore" /\ o.ref \in l.unwatched
                                      /\ task[o.ref] = TaskOf(o)
                /\ TaskOf(o) = "createSnapshot" => snapshots[o.ref] + 1 >= o.nth
  BY <1>4, <1>5 DEF Seen, Refused, Unwatched
<1>6. CASE o.op = "setMetric"
  BY <1>1, <1>3, <1>6 DEF InEffect, HasMetric
<1>7. CASE o.op = "setProperty"
  BY <1>1, <1>3, <1>7 DEF InEffect
<1>8. CASE o.op \in {"disconnect", "powerOff"}
  <2>1. IsCall(o) /\ TaskOf(o) = o.op /\ ~Spared(w, o)
    BY <1>8 DEF IsCall, TaskOf, VSphereTask, Spared
  <2>2. Seen(w, o)
    BY <1>3, <2>1
  <2>3. Brought(o) \/ Excused(o, l)
    BY <1>5, <2>1, <2>2 DEF Excused
  <2>4. QED
    BY <1>1, <1>8, <2>1, <2>3 DEF InEffect, Brought
<1>9. CASE o.op = "strike"
  <2>1. IsCall(o) /\ TaskOf(o) = "disconnect"
    BY <1>9 DEF IsCall, TaskOf, VSphereTask
  <2>2. ASSUME o.nth <= StrikeLimit(r.id, r.param), o.ref \notin l.refused
        PROVE  /\ ~connected[o.ref] \/ Excused(o, l)
               /\ o.mark # NoMark => HasProperty(o.ref, o.mark, override)
    <3>1. ~Spared(w, o) /\ ~Refused(w, o)
      BY <2>2 DEF Spared, Refused
    <3>2. Brought(o) \/ Excused(o, l)
      BY <1>3, <1>5, <2>1, <3>1 DEF Excused
    <3>3. QED
      BY <1>3, <1>9, <2>1, <3>1, <3>2 DEF Brought
  <2>3. QED
    BY <1>1, <1>9, <2>2 DEF InEffect
<1>10. CASE o.op = "enterMaintenance"
  <2>1. IsCall(o) /\ TaskOf(o) = "enterMaintenance" /\ ~Spared(w, o)
    BY <1>10 DEF IsCall, TaskOf, VSphereTask, Spared
  <2>2. o.onErr = "return" /\ o.onWait = "return"
    BY <1>1, <1>10, MaintenanceDeed
  <2>3. Brought(o)
    BY <1>3, <1>5, <2>1, <2>2
  <2>4. QED
    BY <1>1, <1>10, <2>1, <2>3 DEF InEffect, Brought
<1>11. CASE o.op = "createSnapshot"
  <2>1. IsCall(o) /\ TaskOf(o) = "createSnapshot" /\ ~Spared(w, o)
    BY <1>11 DEF IsCall, TaskOf, VSphereTask, Spared
  <2>2. o.nth \in Nat /\ snapshots[o.ref] \in Nat
    BY <1>1, <1>11, DeedShape DEF World
  <2>3. CASE o.ref \in l.refused
    BY <1>1, <1>11, <2>3 DEF InEffect
  <2>4. CASE o.ref \notin l.refused
    <3>1. /\ snapshots[o.ref] + 1 >= o.nth
          /\ snapshots[o.ref] >= o.nth \/ Excused(o, l)
      BY <1>3, <1>5, <2>1, <2>4 DEF Brought, Excused
    <3>2. snapshots[o.ref] >= o.nth \/ (snapshots[o.ref] = o.nth - 1 /\ Excused(o, l))
      BY <2>2, <3>1
    <3>3. QED
      BY <1>1, <1>11, <3>2 DEF InEffect
  <2>5. QED
    BY <2>3, <2>4
<1>12. QED
  BY <1>2, <1>6, <1>7, <1>8, <1>9, <1>10, <1>11

\* An activation that answers "activated" has put every override, with the
\* expiry computed when it began, every host and VM state and every snapshot of
\* its scenario in place on all of its targets, but for the calls it could not
\* see through and whose errors it ignores: Activate holds mu across its calls,
\* and no other task can change an object while its own task runs.
THEOREM ManagerActivationInPlace == Spec => ActivationInPlace
<1> DEFINE InPlace == \A w \in Worker : Succeeds(w, "activate") =>
             \A r \in {req[w]}, override \in {OverrideBy(w)}, l \in {local[w]} :
                (\A p \in Range(r.targets) : \A o \in Range(ScriptOf(r, p)) :
                    InEffect(r, o, override, l))'
<1>1. ManagerInv /\ FinalInv /\ EffectInv /\ [Next]_vars => InPlace
  <2> SUFFICES ASSUME ManagerInv, EffectInv, [Next]_vars, NEW w \in Worker, Succeeds(w, "activate"),
                      NEW r, r = req[w], NEW override, override = OverrideBy(w),
                      NEW l, l = local[w]
               PROVE  (\A p \in Range(r.targets) : \A o \in Range(ScriptOf(r, p)) :
                          InEffect(r, o, override, l))'
    OBVIOUS
  <2>1. Complete(w)
    BY SucceedsIsComplete
  <2>2. /\ r.op = "activate" /\ pc[w] = "running" /\ pc[w] \in Working
        /\ local[w].rest = <<>> /\ local[w].script = <<>>
        /\ UNCHANGED <<metrics, properties, task, hostVars>>
    BY <2>1 DEF Complete, Succeeds, Working, storeVars, vsphereVars
  <2>3. Range(<<>>) = {}
    BY DEF Range
  <2>4. \A p \in Range(r.targets) : \A o \in Range(ScriptOf(r, p)) : Made(w, o)
    BY <2>2, <2>3 DEF EffectInv, OnCourse, Course
  <2>5. \A p \in Range(r.targets) : \A o \in Range(ScriptOf(r, p)) : InEffect(r, o, override, l)
    BY <2>2, <2>4, MadeInEffect DEF EffectInv
  <2>6. \A o : InEffect(r, o, override, l)' = InEffect(r, o, override, l)
    BY <2>2 DEF InEffect, HasProperty, Excused, hostVars
  <2>7. QED
    BY <2>5, <2>6
<1>2. QED
  BY <1>1, EffectAlways, PTL DEF Spec, ActivationInPlace

\* A deactivation clears the objects that its activation marks.
LEMMA ClearsMarked ==
    ASSUME NEW p, NEW id \in registerAllScenarios \ ClusterScenario, NEW e \in Marks(id, p)
    PROVE  /\ [op |-> "clearMetrics", ref |-> e] \in Range(deactivateScenario(id, p))
           /\ [op |-> "clearProperties", ref |-> e] \in Range(deactivateScenario(id, p))
<1>1. id \notin CallsOnly /\ e \in Reach(id, p)
  BY DEF Marks
<1>2. \A x : ClearOverrides(e)[1] = [op |-> "clearMetrics", ref |-> e]
          /\ ClearOverrides(e)[2] = [op |-> "clearProperties", ref |-> e]
          /\ Len(ClearOverrides(e)) = 2
          /\ (ClearOverrides(e) \o <<x>>)[1] = ClearOverrides(e)[1]
          /\ (ClearOverrides(e) \o <<x>>)[2] = ClearOverrides(e)[2]
          /\ DOMAIN ClearOverrides(e) = 1..2 /\ DOMAIN (ClearOverrides(e) \o <<x>>) = 1..3
  BY DEF ClearOverrides
<1>3. CASE id = "host_psod"
  <2>1. deactivateScenario(id, p) = ClearOverrides(e) \o <<Attempt("reconnect", e)>>
    BY <1>1, <1>3 DEF Reach, HostScenario, deactivateScenario, deactivateHostDisconnect
  <2>2. QED
    BY <1>2, <2>1 DEF Range
<1>4. CASE id = "vm_crash"
  <2>1. deactivateScenario(id, p) = ClearOverrides(e) \o <<Attempt("powerOn", e)>>
    BY <1>1, <1>4 DEF Reach, HostScenario, VMScenario, deactivateScenario, deactivateVMCrash
  <2>2. QED
    BY <1>2, <2>1 DEF Range
<1>5. CASE id \in RefScenario
  <2>1. deactivateScenario(id, p) = ClearOverrides(e)
    BY <1>1, <1>5 DEF Reach, HostScenario, VMScenario, ClusterScenario, RefScenario, deactivateScenario,
                      deactivateClearOverrides
  <2>2. QED
    BY <1>2, <2>1 DEF Range
<1>6. QED
  BY <1>1, <1>3, <1>4, <1>5 DEF registerAllScenarios, HostScenario, VMScenario, CallsOnly

\* A deactivation makes the call that takes a call of its activation back.
LEMMA TakesBack ==
    ASSUME NEW p, NEW id \in registerAllScenarios \ ClusterScenario, NEW o \in Deed(id, p)
    PROVE  /\ o.op # "strike"
           /\ o.op = "disconnect" =>
                Attempt("reconnect", o.ref) \in Range(deactivateScenario(id, p))
           /\ o.op = "enterMaintenance" =>
                Attempt("exitMaintenance", o.ref) \in Range(deactivateScenario(id, p))
           /\ o.op = "powerOff" =>
                Attempt("powerOn", o.ref) \in Range(deactivateScenario(id, p))
<1>1. CASE o \in Sets(Marks(id, p))
  BY <1>1 DEF Sets
<1>2. CASE o \in Calling(id, Reach(id, p))
  <2>1. o.op \in Acts(id) /\ (o.op # "panic" => o.ref \in Reach(id, p))
    BY <1>2 DEF Calling
  <2>2. ASSUME NEW e, NEW x PROVE x \in Range(ClearOverrides(e) \o <<x>>) /\ x \in Range(<<x>>)
    <3>1. (ClearOverrides(e) \o <<x>>)[3] = x /\ 3 \in DOMAIN (ClearOverrides(e) \o <<x>>)
      BY DEF ClearOverrides
    <3>2. <<x>>[1] = x /\ 1 \in DOMAIN <<x>>
      OBVIOUS
    <3>3. QED
      BY <3>1, <3>2, Zenon DEF Range
  <2>3. CASE id \in {"net_mgmt_partition", "host_psod"}
    <3>1. o.op = "disconnect" /\ o.ref = HostSystem(p)
      BY <2>1, <2>3 DEF Acts, Reach, HostScenario
    <3>2. deactivateScenario(id, p) = ClearOverrides(o.ref) \o <<Attempt("reconnect", o.ref)>>
      BY <2>3, <3>1 DEF deactivateScenario, deactivateHostDisconnect
    <3>3. QED
      BY <2>2, <3>1, <3>2
  <2>4. CASE id = "host_maintenance"
    <3>1. o.op = "enterMaintenance" /\ o.ref = HostSystem(p)
      BY <2>1, <2>4 DEF Acts, Reach, HostScenario
    <3>2. deactivateScenario(id, p) = <<Attempt("exitMaintenance", o.ref)>>
      BY <2>4, <3>1 DEF deactivateScenario, deactivateHostMaintenance
    <3>3. QED
      BY <2>2, <3>1, <3>2
  <2>5. CASE id = "vm_crash"
    <3>1. o.op = "powerOff" /\ o.ref = VirtualMachine(p)
      BY <2>1, <2>5 DEF Acts, Reach, HostScenario, VMScenario
    <3>2. deactivateScenario(id, p) = ClearOverrides(o.ref) \o <<Attempt("powerOn", o.ref)>>
      BY <2>5, <3>1 DEF deactivateScenario, deactivateVMCrash
    <3>3. QED
      BY <2>2, <3>1, <3>2
  <2>6. CASE id \notin {"net_mgmt_partition", "host_psod", "host_maintenance", "vm_crash"}
    BY <2>1, <2>6 DEF Acts, ClusterScenario, registerAllScenarios
  <2>7. QED
    BY <2>3, <2>4, <2>5, <2>6
<1>3. QED
  BY <1>1, <1>2 DEF Deed

\* A call that a deactivation has made, when it is at none.
LEMMA MadeBack ==
    ASSUME NEW w \in Worker, pc[w] = "running", NEW l, l = local[w], NEW name, NEW e,
           name \in {"reconnect", "exitMaintenance", "powerOn"}, Made(w, Attempt(name, e))
    PROVE  \/ Excused(Attempt(name, e), l)
           \/ name = "reconnect" /\ connected[e]
           \/ name = "exitMaintenance" /\ ~maintenance[e]
           \/ name = "powerOn" /\ (powered[e] \/ task[e] = "error")
<1> DEFINE o == Attempt(name, e)
<1>1. o.op = name /\ o.ref = e /\ o.onErr = "ignore" /\ o.onWait = "ignore" /\ TaskOf(o) = name
  BY DEF Attempt, Call, TaskOf
<1> HIDE DEF o
<1>2. IsCall(o) /\ ~Spared(w, o) /\ ~InHand(w, e)
  BY <1>1 DEF IsCall, VSphereTask, Spared, InHand
<1>3. Seen(w, o)
  BY <1>2 DEF Made, o
<1>4. Excused(o, l) \/ Brought(o)
  BY <1>1, <1>2, <1>3 DEF Seen, Refused, Unwatched, Excused
<1>5. QED
  BY <1>1, <1>4 DEF Brought, o

\* What is left of an activation when all entries of its deactivation are made.
LEMMA ReversedAtEnd ==
    ASSUME Marked, NEW w \in Worker, pc[w] = "running", NEW r \in Request, r = req[w],
           NEW l, l = local[w], r.id \in registerAllScenarios \ ClusterScenario,
           \A p \in Range(r.targets) : \A o \in Range(deactivateScenario(r.id, p)) : Made(w, o)
    PROVE  Reversed(r, l)
<1>1. r.targets \in Seq(Path) /\ r.param \in Int \union {NoParam}
  BY ManagerAssumption
<1>2. Range(r.targets) \subseteq Path
  BY <1>1 DEF Range
<1>3. ASSUME NEW e \in Entity, NEW o \in OverridesOn(e), o.value = <<r.id, r.targets>>
      PROVE  FALSE
  <2>1. e \in MarkedBy(<<r.id, r.targets>>)
    BY <1>3 DEF OverridesOn, Marked, Placed
  <2>2. PICK p \in Range(r.targets) : e \in Marks(r.id, p)
    BY <2>1 DEF MarkedBy
  <2>3. Made(w, [op |-> "clearMetrics", ref |-> e]) /\ Made(w, [op |-> "clearProperties", ref |-> e])
    BY <2>2, ClearsMarked
  <2>4. DOMAIN metrics[e] = {} /\ DOMAIN properties[e] = {}
    BY <2>3 DEF Made, Written
  <2>5. QED
    BY <1>3, <2>4 DEF OverridesOn
<1>4. OverridesBy(r) = {}
  BY <1>3 DEF OverridesBy
<1>5. ASSUME NEW p \in Range(r.targets), NEW o \in Range(activateScenario(r.id, p, r.param))
      PROVE  Restored(o, l)
  <2>1. r.id # "cascade_ha_exhaustion" /\ p \in Path
    BY <1>2 DEF ClusterScenario
  <2>2. activateScenario(r.id, p, r.param) \in Seq(Deed(r.id, p))
    BY <1>1, <2>1, ActivationScript
  <2>3. o \in Deed(r.id, p)
    BY <2>2 DEF Range
  <2>4. /\ o.op # "strike"
        /\ o.op = "disconnect" => Made(w, Attempt("reconnect", o.ref))
        /\ o.op = "enterMaintenance" => Made(w, Attempt("exitMaintenance", o.ref))
        /\ o.op = "powerOff" => Made(w, Attempt("powerOn", o.ref))
    BY <2>3, TakesBack
  <2>5. CASE o.op = "disconnect"
    BY <2>4, <2>5, MadeBack DEF Restored
  <2>6. CASE o.op = "enterMaintenance"
    BY <2>4, <2>6, MadeBack DEF Restored
  <2>7. CASE o.op = "powerOff"
    BY <2>4, <2>7, MadeBack DEF Restored
  <2>8. CASE o.op \notin {"disconnect", "strike", "enterMaintenance", "powerOff"}
    BY <2>8 DEF Restored
  <2>9. QED
    BY <2>4, <2>5, <2>6, <2>7, <2>8
<1>6. QED
  BY <1>4, <1>5 DEF Reversed

\* A scenario that acts on its targets alone is reversed by its deactivation:
\* when "deactivated" is answered and all targets resolve, no override of the
\* activation is left anywhere, its hosts are connected and out of maintenance
\* mode and its VMs on, but for a call that had no session, that lost its
\* session before its task ended, or whose power-on the server failed.
\* Snapshots are not taken back, and the theorem says nothing of them.
THEOREM ManagerTargetScenariosReverse == Spec => TargetScenariosReverse
<1> DEFINE Ids == registerAllScenarios \ ClusterScenario
<1>1. ManagerInv /\ FinalInv /\ EffectInv /\ [Next]_vars => DeactivationReverses(Ids)
  <2> SUFFICES ASSUME ManagerInv, EffectInv, [Next]_vars, NEW w \in Worker, Succeeds(w, "deactivate"),
                      NEW r, r = req[w], NEW l, l = local[w],
                      r.id \in Ids, \A p \in Range(r.targets) : Finds(r, p)'
               PROVE  Reversed(r, l)'
    BY DEF DeactivationReverses
  <2>1. Complete(w)
    BY SucceedsIsComplete
  <2>2. /\ r.op = "deactivate" /\ pc[w] = "running" /\ pc[w] \in Working
        /\ local[w].rest = <<>> /\ local[w].script = <<>>
        /\ UNCHANGED <<metrics, properties, task, hostVars, present>>
    BY <2>1 DEF Complete, Succeeds, Working, storeVars, vsphereVars
  <2>3. r \in Request
    BY <2>2 DEF ManagerInv, Place
  <2>4. \A p \in Range(r.targets) : Finds(r, p)
    BY <2>2 DEF Finds
  <2>5. Range(<<>>) = {}
    BY DEF Range
  <2>6. \A p \in Range(r.targets) : \A o \in Range(deactivateScenario(r.id, p)) : Made(w, o)
    BY <2>2, <2>4, <2>5 DEF EffectInv, OnCourse, Course, ScriptOf
  <2>7. Reversed(r, l)
    BY <2>2, <2>3, <2>6, ReversedAtEnd DEF EffectInv
  <2>8. QED
    BY <2>2, <2>7 DEF Reversed, OverridesBy, OverridesOn, Restored, Excused, hostVars
<1>2. QED
  BY <1>1, EffectAlways, PTL DEF Spec, TargetScenariosReverse

-----------------------------------------------------------------------------
(* Types.                                                                  *)

\* The handlers and the list of active scenarios.
Listed ==
    /\ arrivals \in Nat
    /\ DOMAIN active \subseteq Keys
    /\ \A k \in DOMAIN active : active[k] \in registerAllScenarios \X TargetLists
    /\ \A w \in Worker : (pc[w] = "idle") = (req[w] = NoRequest)
    /\ \A w \in Worker : answer[w].keys \subseteq Keys

\* Only a handler that waits for an update can be deaf to it.
Deaf == deaf \subseteq {w \in Worker : pc[w] \in {"listening", "blocked"}}

LEMMA DeafStep == ManagerInv /\ Deaf /\ [Next]_vars => Deaf'
<1> SUFFICES ASSUME ManagerInv, Deaf, [Next]_vars PROVE Deaf'
  OBVIOUS
<1>1. ASSUME NEW w \in Worker, NEW x, pc' = [pc EXCEPT ![w] = x], deaf' \subseteq deaf,
             w \notin deaf' \/ x = "blocked"
      PROVE  Deaf'
  BY <1>1 DEF Deaf, ManagerInv, HandlersOK
<1>2. CASE UNCHANGED <<deaf, pc>>
  BY <1>2 DEF Deaf
<1>3. ASSUME NEW w \in Worker, Reject(w) \/ Acquire(w) \/ \E r \in Request : Arrive(w, r)
      PROVE  Deaf'
  <2>1. pc[w] \in {"idle", "received"} /\ deaf' = deaf /\ \E x : pc' = [pc EXCEPT ![w] = x]
    BY <1>3 DEF Arrive, Reject, Reply, Acquire, ListActive, ActivateUnknown, Activate,
                DeactivateInactive, Deactivate, ClearAll, Enter, CanEnter, vsphereVars
  <2>2. QED
    BY <1>1, <2>1 DEF Deaf
<1>4. ASSUME NEW w \in Worker, Locked(w) PROVE Deaf'
  <2>1. CASE \/ SetMetricStep(w) \/ SetPropertyStep(w) \/ ClearMetricsStep(w) \/ ClearPropertiesStep(w)
             \/ NextTarget(w) \/ SkipTarget(w) \/ SkipHost(w) \/ CallIgnored(w)
    BY <1>2, <2>1 DEF SetMetricStep, SetPropertyStep, ClearMetricsStep, ClearPropertiesStep, NextTarget,
                      SkipTarget, SkipHost, CallIgnored, RegistryOnly, vsphereVars
  <2>2. CASE \/ ClearRegistry(w) \/ ClearActive(w) \/ TargetNotFound(w) \/ Complete(w) \/ PanicStep(w)
             \/ SendCall(w) \/ CallFails(w) \/ StartTask(w) \/ CreatePropertyCollector(w)
             \/ CreateFilter(w) \/ WaitDone(w)
    <3>1. pc[w] \in {"clearing", "cleared", "running", "sent", "called", "created", "updated"}
      BY <2>2 DEF ClearRegistry, ClearActive, TargetNotFound, Complete, PanicStep, SendCall, CallFails,
                  StartTask, CreatePropertyCollector, CreateFilter, WaitDone, AtTarget, AtCall, Upcoming
    <3>2. deaf' = deaf /\ \E x : pc' = [pc EXCEPT ![w] = x]
      BY <2>2 DEF ClearRegistry, ClearActive, TargetNotFound, Complete, PanicStep, SendCall, CallFails,
                  StartTask, CreatePropertyCollector, CreateFilter, WaitDone, AfterCall, Goto, Return,
                  Reply, RequestOnly, vsphereVars
    <3>3. QED
      BY <1>1, <3>1, <3>2 DEF Deaf
  <2>3. CASE WaitForUpdatesEx(w)
    BY <1>1, <2>3 DEF WaitForUpdatesEx, Goto, RequestOnly, vsphereVars
  <2>4. CASE ReceiveUpdate(w)
    BY <1>1, <2>4 DEF ReceiveUpdate, Goto, RequestOnly, vsphereVars
  <2>5. CASE WaitFails(w) \/ WaitIgnored(w)
    BY <1>1, <2>5 DEF WaitFails, WaitIgnored, AfterCall, Goto, Return, Reply
  <2>6. QED
    BY <1>4, <2>1, <2>2, <2>3, <2>4, <2>5 DEF Locked
<1>5. ASSUME NEW e \in Entity, RunTask(e) PROVE Deaf'
  BY <1>2, <1>5, RunsAlone DEF handlerVars
<1>6. ASSUME NEW s, Logout(s) PROVE Deaf'
  BY <1>6 DEF Logout, SessionsOnly, handlerVars, Deaf
<1>7. CASE Tick \/ (\E s : ServeFrom(s)) \/ (\E p \in Renamable : RenameTask(p)) \/ UNCHANGED vars
  BY <1>2, <1>7 DEF Tick, ServeFrom, SessionsOnly, RenameTask, handlerVars, vsphereVars, vars
<1>8. QED
  BY <1>3, <1>4, <1>5, <1>6, <1>7 DEF Next

\* The words of the targets are words, however many targets there are.
LEMMA KeyType ==
    ASSUME NEW id \in registerAllScenarios, NEW targets \in Seq(Path)
    PROVE  Key(id, targets) \in Keys
<1> DEFINE f == [i \in DOMAIN targets |-> Words[targets[i]]]
<1>1. /\ Len(targets) \in Nat /\ DOMAIN targets = 1..Len(targets)
      /\ \A i \in 1..Len(targets) : targets[i] \in Path
  OBVIOUS
<1>2. f = [i \in 1..Len(targets) |-> f[i]] /\ \A i \in 1..Len(targets) : f[i] \in Seq(STRING)
  BY <1>1, ManagerAssumption
<1> HIDE DEF f
<1>3. FlattenSeq(f) \in Seq(STRING)
  BY <1>1, <1>2, LoopType
<1>4. QED
  BY <1>3 DEF Key, Keys, f

\* An answer: it shows keys, and its handler forgets the request.
LEMMA ListedAnswer ==
    ASSUME ManagerInv, Listed, NEW w \in Worker, NEW code, NEW keys \in SUBSET Keys,
           Reply(w, code, keys), UNCHANGED arrivals,
           DOMAIN active' \subseteq Keys,
           \A k \in DOMAIN active' : active'[k] \in registerAllScenarios \X TargetLists
    PROVE  Listed'
<1>1. \A u \in Worker : /\ pc'[u] = IF u = w THEN "idle" ELSE pc[u]
                        /\ req'[u] = IF u = w THEN NoRequest ELSE req[u]
  BY DEF Reply, ManagerInv, HandlersOK
<1>2. \A u \in Worker : (pc'[u] = "idle") = (req'[u] = NoRequest)
  BY <1>1 DEF Listed
<1>3. \A u \in Worker : answer'[u].keys \subseteq Keys
  BY DEF Reply, Listed, ManagerInv, HandlersOK
<1>4. QED
  BY <1>2, <1>3 DEF Listed

\* A step in which every handler stays in its request.
LEMMA ListedQuiet ==
    ASSUME Listed, UNCHANGED <<arrivals, active, req, answer>>,
           \A u \in Worker : (pc'[u] = "idle") = (pc[u] = "idle")
    PROVE  Listed'
<1>1. \A u \in Worker : (pc'[u] = "idle") = (req'[u] = NoRequest)
  BY DEF Listed
<1>2. QED
  BY <1>1 DEF Listed

LEMMA ListedLocked ==
    ASSUME ManagerInv, EffectInv, Listed, NEW w \in Worker, Locked(w)
    PROVE  Listed'
<1>1. DOMAIN active \in SUBSET Keys /\ {} \in SUBSET Keys
      /\ \A k \in DOMAIN active : active[k] \in registerAllScenarios \X TargetLists
  BY DEF Listed
<1>2. CASE Works(w)
  <2>1. Moves(w) /\ UNCHANGED arrivals
    BY <1>2, WorkMoves DEF Works, SetMetricStep, SetPropertyStep, ClearMetricsStep, ClearPropertiesStep,
                           SkipHost, SendCall, CallIgnored, StartTask, CreatePropertyCollector,
                           CreateFilter, WaitForUpdatesEx, ReceiveUpdate, WaitDone, WaitIgnored,
                           AfterCall, RequestOnly, RegistryOnly
  <2>2. \A u \in Worker : (pc'[u] = "idle") = (pc[u] = "idle")
    BY <2>1 DEF Moves, ManagerInv, HandlersOK, Working, Waiting
  <2>3. QED
    BY <2>1, <2>2, ListedQuiet DEF Moves
<1>3. CASE NextTarget(w) \/ SkipTarget(w)
  <2>1. UNCHANGED <<arrivals, active, req, answer, pc>>
    BY <1>3 DEF NextTarget, SkipTarget
  <2>2. QED
    BY <2>1, ListedQuiet
<1>4. CASE ClearRegistry(w)
  <2>1. UNCHANGED <<arrivals, active, req, answer>> /\ pc[w] = "clearing"
        /\ pc' = [pc EXCEPT ![w] = "cleared"]
    BY <1>4 DEF ClearRegistry
  <2>2. \A u \in Worker : (pc'[u] = "idle") = (pc[u] = "idle")
    BY <2>1 DEF ManagerInv, HandlersOK
  <2>3. QED
    BY <2>1, <2>2, ListedQuiet
<1>5. CASE ClearActive(w)
  <2>1. Reply(w, "ok", {}) /\ UNCHANGED arrivals /\ DOMAIN active' = {}
    BY <1>5 DEF ClearActive, Return, Registry!EmptyMap
  <2>2. QED
    BY <1>1, <2>1, ListedAnswer
<1>6. CASE TargetNotFound(w) \/ PanicStep(w) \/ CallFails(w) \/ WaitFails(w)
  <2>1. \E code : Reply(w, code, {}) /\ UNCHANGED <<arrivals, active>>
    BY <1>6 DEF TargetNotFound, PanicStep, CallFails, WaitFails, Return
  <2>2. QED
    BY <1>1, <2>1, ListedAnswer
<1>7. CASE Complete(w)
  <2>1. Reply(w, "ok", {}) /\ UNCHANGED arrivals /\ pc[w] = "running" /\ pc[w] \in Working
    BY <1>7 DEF Complete, Return, Working
  <2>2. CASE req[w].op = "activate"
    <3>1. active' = Registry!Put(active, ReqKey(w), Stamp(w))
      BY <1>7, <2>2 DEF Complete
    <3>2. req[w].id \in registerAllScenarios
      BY <2>1, <2>2 DEF EffectInv, OnCourse, Ahead
    <3>3. req[w].targets \in Seq(Path)
      BY <2>1, ManagerAssumption DEF ManagerInv, Place
    <3>4. ReqKey(w) \in Keys
      BY <3>2, <3>3, KeyType DEF ReqKey
    <3>5. Stamp(w) \in registerAllScenarios \X TargetLists
      BY <3>2, <3>3 DEF Stamp, TargetLists
    <3>6. DOMAIN active' \subseteq Keys
      BY <1>1, <3>1, <3>4 DEF Registry!Put
    <3>7. \A k \in DOMAIN active' : active'[k] \in registerAllScenarios \X TargetLists
      BY <1>1, <3>1, <3>5 DEF Registry!Put
    <3>8. QED
      BY <1>1, <2>1, <3>6, <3>7, ListedAnswer
  <2>3. CASE req[w].op # "activate"
    <3>1. active' = [k \in DOMAIN active \ {ReqKey(w)} |-> active[k]]
      BY <1>7, <2>3 DEF Complete
    <3>2. /\ DOMAIN active' \subseteq Keys
          /\ \A k \in DOMAIN active' : active'[k] \in registerAllScenarios \X TargetLists
      BY <1>1, <3>1
    <3>3. QED
      BY <1>1, <2>1, <3>2, ListedAnswer
  <2>4. QED
    BY <2>2, <2>3
<1>8. QED
  BY <1>2, <1>3, <1>4, <1>5, <1>6, <1>7 DEF Locked, Works

LEMMA ListedStep == ManagerInv /\ EffectInv /\ Listed /\ [Next]_vars => Listed'
<1> SUFFICES ASSUME ManagerInv, EffectInv, Listed, [Next]_vars PROVE Listed'
  OBVIOUS
<1>1. DOMAIN active \in SUBSET Keys /\ {} \in SUBSET Keys
      /\ \A k \in DOMAIN active : active[k] \in registerAllScenarios \X TargetLists
  BY DEF Listed
<1>2. ASSUME NEW w \in Worker, NEW r \in Request, Arrive(w, r) PROVE Listed'
  <2>1. \A u \in Worker : /\ pc'[u] = IF u = w THEN "received" ELSE pc[u]
                          /\ req'[u] = IF u = w THEN r ELSE req[u]
    BY <1>2 DEF Arrive, ManagerInv, HandlersOK
  <2>2. \A u \in Worker : (pc'[u] = "idle") = (req'[u] = NoRequest)
    BY <2>1, ManagerAssumption DEF Listed
  <2>3. \A u \in Worker : answer'[u].keys \subseteq Keys
    BY <1>2 DEF Arrive, Listed, ManagerInv, HandlersOK, NoAnswer
  <2>4. arrivals' \in Nat /\ active' = active
    BY <1>2 DEF Arrive, Listed
  <2>5. QED
    BY <2>2, <2>3, <2>4 DEF Listed
<1>3. ASSUME NEW w \in Worker,
             Reject(w) \/ ActivateUnknown(w) \/ DeactivateInactive(w) \/ ListActive(w)
      PROVE  Listed'
  <2>1. \E code, keys : keys \in SUBSET Keys /\ Reply(w, code, keys) /\ UNCHANGED <<arrivals, active>>
    BY <1>1, <1>3 DEF Reject, ActivateUnknown, DeactivateInactive, ListActive
  <2>2. QED
    BY <1>1, <2>1, ListedAnswer
<1>4. ASSUME NEW w \in Worker, Activate(w) \/ Deactivate(w) \/ ClearAll(w) PROVE Listed'
  <2>1. UNCHANGED <<arrivals, active, req, answer>>
    BY <1>4 DEF Activate, Deactivate, ClearAll, Enter
  <2>2. pc[w] = "received" /\ (pc' = [pc EXCEPT ![w] = "running"] \/ pc' = [pc EXCEPT ![w] = "clearing"])
    BY <1>4 DEF Activate, Deactivate, ClearAll, Enter, CanEnter
  <2>3. \A u \in Worker : (pc'[u] = "idle") = (pc[u] = "idle")
    BY <2>2 DEF ManagerInv, HandlersOK
  <2>4. QED
    BY <2>1, <2>3, ListedQuiet
<1>5. ASSUME NEW w \in Worker, Locked(w) PROVE Listed'
  BY <1>5, ListedLocked
<1>6. CASE UNCHANGED <<arrivals, active, handlerVars>>
  BY <1>6, ListedQuiet DEF handlerVars
<1>7. CASE \/ Tick \/ (\E e : RunTask(e)) \/ (\E s : ServeFrom(s) \/ Logout(s))
           \/ (\E p \in Renamable : RenameTask(p)) \/ UNCHANGED vars
  BY <1>6, <1>7, RunsAlone DEF Tick, ServeFrom, Logout, SessionsOnly, RenameTask, vars
<1>8. QED
  BY <1>2, <1>3, <1>4, <1>5, <1>7 DEF Next, Acquire

\* Handlers, lock, map of active scenarios, registry and vSphere state keep
\* their types, whatever the words of the targets' paths and the parameters.
THEOREM ManagerTypeOK == Spec => []TypeOK
<1>1. Init => Listed /\ Deaf
  BY DEF Init, Listed, Deaf, NoAnswer, Registry!EmptyMap
<1>2. ManagerInv /\ EffectInv /\ Listed /\ Deaf => TypeOK
  BY DEF ManagerInv, HandlersOK, EffectInv, Marked, Placed, World, Listed, Deaf, TypeOK
<1>3. QED
  BY <1>1, <1>2, DeafStep, ListedStep, EffectAlways, PTL DEF Spec
=============================================================================
