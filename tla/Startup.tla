------------------------------- MODULE Startup -------------------------------
(***************************************************************************)
(* cmd/vcsim/main.go from the first line to "Ready", and the builder of    *)
(* pkg/inventory that it runs against its own server.  Every call of the   *)
(* builder may fail, and all fail once its five minutes are over; a call   *)
(* may also take effect and lose its answer to the deadline.  The first    *)
(* error ends the build, except for errors of VMs, which are only logged.  *)
(***************************************************************************)
EXTENDS InventoryConfig, Lists

CONSTANTS
    Flags,              \* the command lines: skip, dc, cluster, host, vm, ds, dvs
    NoProfile,
    MaxLost, LossyPool, \* bounds on the VMs of one pool that fail, and on the
                        \* size of a pool in which any may
    MaxFaults           \* bound on the failures that no deadline explains

ASSUME StartupAssumption ==
    /\ MaxLost \in Nat /\ LossyPool \in Nat /\ MaxFaults \in Nat
    /\ NoProfile \notin Profiles
    /\ \A f \in Flags : {f.dc, f.cluster, f.host, f.vm, f.ds, f.dvs} \subseteq Int

VARIABLES
    flags,
    phase,              \* where main, or the builder it calls, is
    at,                 \* the builder's loop counters: dc, cluster, host, pool
    outcome,            \* of the build: "none", "complete" or "failed"
    expired,            \* is buildCtx past its deadline?
    faults

(* The inventory of the simulator, and what pkg/inventory keeps.           *)
VARIABLES
    dcs,                \* the datacenters that exist, by position in the layout
    clusterHost,        \* <<d, c>> -> ClusterComputeResource.Host, a sequence
    hardware,           \* host <<d, c, i>> -> the profile its summary was given
    mounts,             \* the hosts that have the datastore of their cluster
    pools,              \* <<d, c, p>> -> its VMs: how many there are, how many are on
    registry,           \* hostProfileRegistry: host name -> profile
    shared,             \* the profile last applied to what all hosts share
    sensors             \* the sensors, by type, that all hosts share

main == <<flags, phase, at, outcome, expired, faults>>
tree == <<dcs, clusterHost, hardware, mounts, pools, shared, sensors>>
vars == <<main, tree, registry>>

-----------------------------------------------------------------------------
(* The layout and the place of the builder in it.                          *)

LayoutOf(f) == IF f.dc > 0 THEN SimpleConfig(f) ELSE DefaultConfig

Layout == LayoutOf(flags)

Clusters(d) == Layout[d].clusters

ThisCluster == <<at.dc, at.cluster>>
Config == Clusters(at.dc)[at.cluster]

ThisHost == <<at.dc, at.cluster, at.host>>
HostName(d, c, i) == <<Clusters(d)[c].prefix, i>>

ThisPool == <<at.dc, at.cluster, at.pool>>
PoolConfig == Config.pools[at.pool]

Put(f, k, v) == [j \in DOMAIN f \union {k} |-> IF j = k THEN v ELSE f[j]]

Empty == [k \in {} |-> 0]

Init ==
    /\ flags \in Flags
    /\ phase = "start"
    /\ at = [dc |-> 1, cluster |-> 1, host |-> 1, pool |-> 1]
    /\ outcome = "none" /\ expired = FALSE /\ faults = 0
    /\ dcs = {} /\ mounts = {}
    /\ clusterHost = Empty /\ hardware = Empty /\ pools = Empty
    /\ registry = Empty
    /\ shared = NoProfile /\ sensors = Empty

Goto(p) == phase' = p /\ UNCHANGED <<flags, at, outcome, expired, faults>>

\* The answer of a call: it comes and the builder goes on, or the deadline
\* comes first and the build fails although the call took effect.
Answered(p, place) ==
    /\ ~expired
    /\ \/ phase' = p /\ at' = place /\ UNCHANGED <<flags, outcome, expired, faults>>
       \/ /\ phase' = "close" /\ outcome' = "failed" /\ expired' = TRUE
          /\ UNCHANGED <<flags, at, faults>>

Fault == ~expired /\ faults < MaxFaults /\ faults' = faults + 1

-----------------------------------------------------------------------------
(* Build, buildDatacenter and buildCluster.                                *)

\* A faulty variant: the clusters are counted on from the last datacenter.
CountsOn ==
    /\ phase = "datacenter" /\ at.dc \in DOMAIN Layout
    /\ dcs' = dcs \union {at.dc}
    /\ Answered("cluster", at)
    /\ UNCHANGED <<clusterHost, hardware, mounts, pools, shared, sensors, registry>>

CreateDatacenter ==
    /\ phase = "datacenter" /\ at.dc \in DOMAIN Layout
    /\ dcs' = dcs \union {at.dc}
    /\ Answered("cluster", [at EXCEPT !.cluster = 1])
    /\ UNCHANGED <<clusterHost, hardware, mounts, pools, shared, sensors, registry>>

CreateCluster ==
    /\ phase = "cluster" /\ at.cluster \in DOMAIN Clusters(at.dc)
    /\ clusterHost' = Put(clusterHost, ThisCluster, <<>>)
    /\ Answered("register", [at EXCEPT !.host = 1])
    /\ UNCHANGED <<dcs, hardware, mounts, pools, shared, sensors, registry>>

\* A faulty variant: the host is added first.
RegisterNothing ==
    /\ phase = "register" /\ at.host <= Config.hosts
    /\ Goto("addHost")
    /\ UNCHANGED <<tree, registry>>

\* "Register the hardware profile for this host BEFORE creation".
RegisterHostProfile ==
    /\ phase = "register" /\ at.host <= Config.hosts
    /\ registry' = Put(registry, HostName(at.dc, at.cluster, at.host),
                       ProfileForHost(Config.name, at.host))
    /\ Goto("addHost")
    /\ UNCHANGED tree

LookupHostProfile(name) == IF name \in DOMAIN registry THEN registry[name] ELSE NoProfile

\* Summary.Hardware and the scalars of Hardware are the host's own; BiosInfo and
\* CpuPkg are still those of the template, so they are written for all hosts.
Apply(host, profile) ==
    /\ hardware' = Put(hardware, host, profile)
    /\ shared' = profile

\* HealthSystemRuntime, too, is the template's.
ApplySensors(profile) == sensors' = BuildSensors(profile)

HostCustomizationFunc(host, name) ==
    LET profile == LookupHostProfile(name)
    IN  \/ profile # NoProfile /\ Apply(host, profile) /\ ApplySensors(profile)
        \/ /\ profile = NoProfile
           /\ hardware' = Put(hardware, host, NoProfile) /\ UNCHANGED <<shared, sensors>>

\* The AddHost task: NewHostSystem, and configure with the customization hook.
addHostToCluster ==
    /\ phase = "addHost"
    /\ HostCustomizationFunc(ThisHost, HostName(at.dc, at.cluster, at.host))
    /\ clusterHost' = [clusterHost EXCEPT ![ThisCluster] = Append(@, ThisHost)]
    /\ Answered("register", [at EXCEPT !.host = @ + 1])
    /\ UNCHANGED <<dcs, mounts, pools, registry>>

HostsAdded ==
    /\ phase = "register" /\ at.host > Config.hosts
    /\ phase' = "mount" /\ at' = [at EXCEPT !.host = 1]
    /\ UNCHANGED <<flags, outcome, expired, faults, tree, registry>>

\* A faulty variant: the loop goes on to the pools before the last host.
SkipsLastHost ==
    /\ phase = "mount" /\ at.host < Config.hosts
    /\ mounts' = mounts \union {ThisHost}
    /\ Answered("mount", [at EXCEPT !.host = IF @ = Config.hosts - 1 THEN @ + 2 ELSE @ + 1])
    /\ UNCHANGED <<dcs, clusterHost, hardware, pools, shared, sensors, registry>>

\* A faulty variant: the loop variable starts at 0 and is used as if at 1.
MountsNextHost ==
    /\ phase = "mount" /\ at.host <= Config.hosts
    /\ mounts' = mounts \union {<<at.dc, at.cluster, at.host + 1>>}
    /\ Answered("mount", [at EXCEPT !.host = @ + 1])
    /\ UNCHANGED <<dcs, clusterHost, hardware, pools, shared, sensors, registry>>

\* createSharedDatastore: a directory, and CreateLocalDatastore on every host.
\* The first host creates the datastore of the cluster, the others mount it.
createSharedDatastore ==
    /\ phase = "mount" /\ at.host <= Config.hosts
    /\ mounts' = mounts \union {ThisHost}
    /\ Answered("mount", [at EXCEPT !.host = @ + 1])
    /\ UNCHANGED <<dcs, clusterHost, hardware, pools, shared, sensors, registry>>

DatastoreShared ==
    /\ phase = "mount" /\ at.host > Config.hosts
    /\ Goto("rootPool")
    /\ UNCHANGED <<tree, registry>>

\* The root pool of the cluster is looked up, whether pools follow or not.
ResourcePool ==
    /\ phase = "rootPool"
    /\ Answered("pool", [at EXCEPT !.pool = 1])
    /\ UNCHANGED <<tree, registry>>

CreateResourcePool ==
    /\ phase = "pool" /\ at.pool \in DOMAIN Config.pools
    /\ pools' = Put(pools, ThisPool, [created |-> 0, on |-> 0])
    /\ Answered("vms", at)
    /\ UNCHANGED <<dcs, clusterHost, hardware, mounts, shared, sensors, registry>>

-----------------------------------------------------------------------------
(* The VMs of a pool.  An error is logged and the loop goes on.            *)

\* hostsWithDatastore filters cluster.Host into its own array.
Attached == Filter(clusterHost[ThisCluster], mounts)

FilteredInPlace ==
    [i \in DOMAIN clusterHost[ThisCluster] |->
        IF i <= Len(Attached) THEN Attached[i] ELSE clusterHost[ThisCluster][i]]

\* Without a host to choose, or a datastore to find, the CreateVM task panics in
\* a goroutine of its own and takes the process with it (see PlacementSound).
\* PowerOn may fail too: the VM exists and stays off.  A deadline within the
\* loop is a fault of the VMs that come after it, and then Deadline.
createVMs ==
    /\ phase = "vms" /\ ~expired
    /\ \E lost, off \in 0..MaxLost :
         /\ lost + off <= MaxLost /\ lost + off <= PoolConfig.count
         /\ pools' = [pools EXCEPT ![ThisPool] = [created |-> PoolConfig.count - lost,
                                                  on |-> PoolConfig.count - lost - off]]
         /\ IF lost + off > 0 THEN PoolConfig.count <= LossyPool /\ Fault ELSE UNCHANGED faults
    /\ clusterHost' = [clusterHost EXCEPT ![ThisCluster] = FilteredInPlace]
    /\ phase' = "pool" /\ at' = [at EXCEPT !.pool = @ + 1]
    /\ UNCHANGED <<flags, outcome, expired, dcs, hardware, mounts, shared, sensors, registry>>

\* A faulty variant: a VM that fails is tried again.
RetryForEver ==
    /\ phase = "vms" /\ expired
    /\ UNCHANGED vars

\* After the deadline every VM fails.
createNoVMs ==
    /\ phase = "vms" /\ expired
    /\ phase' = "pool" /\ at' = [at EXCEPT !.pool = @ + 1]
    /\ UNCHANGED <<flags, outcome, expired, faults, tree, registry>>

\* The ends of the loops.
ClusterBuilt ==
    /\ phase = "pool" /\ at.pool \notin DOMAIN Config.pools
    /\ phase' = "cluster" /\ at' = [at EXCEPT !.cluster = @ + 1]
    /\ UNCHANGED <<flags, outcome, expired, faults, tree, registry>>

DatacenterBuilt ==
    /\ phase = "cluster" /\ at.cluster \notin DOMAIN Clusters(at.dc)
    /\ phase' = "datacenter" /\ at' = [at EXCEPT !.dc = @ + 1]
    /\ UNCHANGED <<flags, outcome, expired, faults, tree, registry>>

BuildComplete ==
    /\ phase = "datacenter" /\ at.dc \notin DOMAIN Layout
    /\ phase' = "close" /\ outcome' = "complete"
    /\ UNCHANGED <<flags, at, expired, faults, tree, registry>>

\* The calls whose error ends the build.
Calling ==
    \/ phase = "datacenter" /\ at.dc \in DOMAIN Layout
    \/ phase = "cluster" /\ at.cluster \in DOMAIN Clusters(at.dc)
    \/ phase \in {"addHost", "rootPool"}
    \/ phase = "mount" /\ at.host <= Config.hosts
    \/ phase = "pool" /\ at.pool \in DOMAIN Config.pools

TooLate == expired /\ faults' = faults

\* A faulty variant: the error of a pool is logged like that of a VM.
PoolErrorLogged ==
    /\ Calling
    /\ Fault \/ TooLate
    /\ IF phase = "pool"
       THEN at' = [at EXCEPT !.pool = @ + 1] /\ UNCHANGED <<phase, outcome>>
       ELSE phase' = "close" /\ outcome' = "failed" /\ UNCHANGED at
    /\ UNCHANGED <<flags, expired, tree, registry>>

CallFails ==
    /\ Calling
    /\ Fault \/ TooLate
    /\ phase' = "close" /\ outcome' = "failed"
    /\ UNCHANGED <<flags, at, expired, tree, registry>>

Building == phase \in {"datacenter", "cluster", "register", "addHost", "mount", "rootPool", "pool",
                      "vms"}

Deadline ==
    /\ Building /\ ~expired
    /\ expired' = TRUE
    /\ UNCHANGED <<flags, phase, at, outcome, faults, tree, registry>>

-----------------------------------------------------------------------------
(* main.                                                                   *)

\* The hooks are installed, the model is created (an empty one, unless the
\* inventory is skipped), and the server answers.
Serve ==
    /\ phase = "start"
    /\ Goto(IF flags.skip THEN "connect" ELSE "newBuilder")
    /\ UNCHANGED <<tree, registry>>

NewBuilder ==
    /\ phase = "newBuilder"
    /\ Goto("datacenter")
    /\ UNCHANGED <<tree, registry>>

\* The builder cannot log in: main goes on without an inventory.
NoBuilder ==
    /\ phase = "newBuilder" /\ Fault
    /\ phase' = "connect" /\ outcome' = "failed"
    /\ UNCHANGED <<flags, at, expired, tree, registry>>

\* The builder logs out; a failed build is only a warning.
Close ==
    /\ phase = "close"
    /\ Goto("connect")
    /\ UNCHANGED <<tree, registry>>

ConnectManager ==
    /\ phase = "connect"
    /\ Goto("ready")
    /\ UNCHANGED <<tree, registry>>

\* log.Fatalf: the model, the manager's client or the API's listener failed.
Fatal ==
    /\ phase \in {"start", "connect", "ready"} /\ Fault
    /\ phase' = "exit"
    /\ UNCHANGED <<flags, at, outcome, expired, tree, registry>>

Shutdown ==
    /\ phase = "ready"
    /\ Goto("exit")
    /\ UNCHANGED <<tree, registry>>

BuildStep ==
    \/ CreateDatacenter \/ CreateCluster \/ RegisterHostProfile \/ addHostToCluster
    \/ HostsAdded \/ createSharedDatastore \/ DatastoreShared \/ ResourcePool
    \/ CreateResourcePool \/ createVMs \/ createNoVMs
    \/ ClusterBuilt \/ DatacenterBuilt \/ BuildComplete \/ CallFails

MainStep == Serve \/ NewBuilder \/ NoBuilder \/ Close \/ ConnectManager

Next == BuildStep \/ MainStep \/ Deadline \/ Fatal \/ Shutdown

\* One goroutine, whose calls come back: with an answer or at the deadline.
Spec == Init /\ [][Next]_vars /\ WF_vars(BuildStep \/ MainStep)

-----------------------------------------------------------------------------
(* Properties.                                                             *)

Phase == {"start", "newBuilder", "datacenter", "cluster", "register", "addHost", "mount",
          "rootPool", "pool", "vms", "close", "connect", "ready", "exit"}

\* The loop counters stay in the layout while they are used, and every part of
\* the inventory belongs to the part above it: clusters to datacenters, hosts
\* and pools to clusters.
TypeOK ==
    /\ flags \in Flags /\ phase \in Phase /\ expired \in BOOLEAN
    /\ outcome \in {"none", "complete", "failed"} /\ faults \in 0..MaxFaults
    /\ dcs \subseteq DOMAIN Layout
    /\ Building /\ phase # "datacenter" => at.dc \in dcs
    /\ phase \in {"register", "addHost", "mount", "rootPool", "pool", "vms"} =>
         ThisCluster \in DOMAIN clusterHost
    /\ phase = "vms" => ThisPool \in DOMAIN pools
    /\ \A k \in DOMAIN clusterHost : k[1] \in dcs /\ k[2] \in DOMAIN Clusters(k[1])
    /\ \A h \in DOMAIN hardware : <<h[1], h[2]>> \in DOMAIN clusterHost
    /\ \A k \in DOMAIN pools : <<k[1], k[2]>> \in DOMAIN clusterHost
    /\ mounts \subseteq DOMAIN hardware

\* Every host of the inventory was customized, when it was created, with the
\* profile of its cluster and its position: the hook never runs before the
\* profile is registered, whatever fails in between.
HostsCustomized ==
    \A h \in DOMAIN hardware :
        /\ h[1] \in DOMAIN Layout /\ h[2] \in DOMAIN Clusters(h[1])
        /\ hardware[h] = ProfileForHost(Clusters(h[1])[h[2]].name, h[3])

\* When VMs are placed, every host of the cluster has the datastore and there
\* is a host: CreateVM neither panics nor, filtering cluster.Host in place,
\* overwrites it.
PlacementSound ==
    phase = "vms" =>
        /\ clusterHost[ThisCluster] # <<>>
        /\ \A i \in DOMAIN clusterHost[ThisCluster] : clusterHost[ThisCluster][i] \in mounts

Built(d, c) ==
    /\ d \in dcs /\ <<d, c>> \in DOMAIN clusterHost
    /\ \A i \in 1..Clusters(d)[c].hosts :
         <<d, c, i>> \in mounts /\ clusterHost[<<d, c>>][i] = <<d, c, i>>
    /\ \A p \in DOMAIN Clusters(d)[c].pools : <<d, c, p>> \in DOMAIN pools

\* "Inventory build complete!" is logged only if every datacenter, cluster,
\* host, shared datastore and resource pool of the layout exists and every
\* cluster lists its hosts once: only VMs can be missing then.
CompleteMeansBuilt ==
    outcome = "complete" =>
        \A d \in DOMAIN Layout : d \in dcs /\ \A c \in DOMAIN Clusters(d) : Built(d, c)

\* A failed build leaves a prefix of the layout: what comes before the last
\* cluster that exists is whole, and nothing comes after it.
FailureLeavesPrefix ==
    \A d \in DOMAIN Layout : \A c \in DOMAIN Clusters(d) :
        \/ Built(d, c)
        \/ \A k \in DOMAIN clusterHost : k[1] < d \/ (k[1] = d /\ k[2] <= c)

\* "each dashboard category reports a non-zero count": from the first host on the
\* sensors that hosts show fill every category of the poller, whatever profiles
\* have been applied in which order.
DashboardPopulated ==
    hardware # Empty =>
        \A category \in Category : Monitored(sensors, category) > 0

Distinct(S, name(_)) == \A x, y \in S : name(x) = name(y) => x = y

Everywhere == UNION {{d} \X (DOMAIN Clusters(d)) : d \in DOMAIN Layout}

\* The layout asks for what the flags ask for, the VMs that three does not
\* divide and values below the least included, and no name is used twice where
\* a second use would be refused (clusters in a datacenter, pools in a cluster,
\* and VMs in a datacenter by the prefix of their pool) or would take the profile
\* of another host.
LayoutSound ==
    phase = "start" =>
        /\ flags.dc > 0 => \A k \in Everywhere :
             LET cluster == Clusters(k[1])[k[2]]
             IN  /\ SumFunction([p \in DOMAIN cluster.pools |-> cluster.pools[p].count])
                      = AtLeast(flags.vm, 0)
                 /\ cluster.hosts >= 1
        /\ Distinct(Everywhere, LAMBDA k : <<k[1], Clusters(k[1])[k[2]].name>>)
        /\ Distinct(Everywhere, LAMBDA k : Clusters(k[1])[k[2]].prefix)
        /\ \A k \in Everywhere :
             LET cluster == Clusters(k[1])[k[2]]
             IN  Distinct(DOMAIN cluster.pools, LAMBDA p : cluster.pools[p].name)
        /\ \A d \in DOMAIN Layout :
             Distinct({k \in Everywhere \X (1..3) :
                         k[1][1] = d /\ k[2] \in DOMAIN Clusters(d)[k[1][2]].pools},
                      LAMBDA k : Clusters(d)[k[1][2]].pools[k[2]].prefix)

Build == INSTANCE InventoryBuild WITH
    asked <- Everywhere,
    built <- {k \in Everywhere : Built(k[1], k[2])}

\* Through failed calls, lost answers and the deadline, the clusters of the
\* layout become whole in its order and stay so (no later step, the filter in
\* place of createVMs included, takes a host, a mount or a pool from one), none
\* does after the first error, and only a whole layout is called complete.
ImplementsBuild == Build!BuildSpec

\* vcsim gets to "Ready", with or without its inventory, unless it exits.
GetsReady == <>(phase \in {"ready", "exit"})

\* "customize per-host hardware properties such as vendor, model, CPU, memory,
\* and BIOS info" (host_system.go:30): what a host shows of its BIOS, its CPU
\* packages and its sensors is what its own profile says.
HostsShowOwnHardware ==
    \A h \in DOMAIN hardware :
        hardware[h] # NoProfile =>
            /\ shared.bios = hardware[h].bios /\ shared.version = hardware[h].version
            /\ shared.cpu = hardware[h].cpu
            /\ sensors = BuildSensors(hardware[h])
=============================================================================
