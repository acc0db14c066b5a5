--------------------------- MODULE StartupProofs ---------------------------
(***************************************************************************)
(* Proofs about the start-up of vcsim, for any flags and any number of     *)
(* failures: the builder stays within its layout, every host shows the     *)
(* profile of its own cluster and position, and the inventory grows in the *)
(* order of the layout, so that a failed build leaves a prefix of it and a *)
(* complete one has built it all; that the sensors fill the dashboard, and *)
(* that a layout is what the flags ask for, without a name used twice.     *)
(***************************************************************************)
EXTENDS Startup, ListsProofs

\* A loop that counts from 1 ends after n rounds.
Counted(S) == \E n \in Nat : S = 1..n

LEMMA SeqCounted ==
    ASSUME NEW T, NEW s \in Seq(T)
    PROVE  Counted(DOMAIN s)
BY DEF Counted

LEMMA CountedEnd ==
    ASSUME NEW S, Counted(S), NEW x \in Nat \ {0}, x \notin S, NEW y \in S
    PROVE  y \in Nat \ {0} /\ y < x
BY DEF Counted

LEMMA CountedPos ==
    ASSUME NEW S, Counted(S), NEW y \in S
    PROVE  y \in Nat \ {0}
BY DEF Counted

LEMMA SimplePoolsCounted ==
    ASSUME NEW d, NEW c, NEW vms
    PROVE  Counted(DOMAIN SimplePools(d, c, vms))
<1> DEFINE share == PoolShares(vms)
           p1 == Pool("RP-Web", share[1], <<"vm-web", d, c>>)
           p2 == Pool("RP-App", share[2], <<"vm-app", d, c>>)
           p3 == Pool("RP-DB", share[3], <<"vm-db", d, c>>)
           T == {p1, p2, p3}
<1>1. SimplePools(d, c, vms) = Unless0(p1) \o Unless0(p2) \o Unless0(p3)
  BY DEF SimplePools
<1>2. p1 \in T /\ p2 \in T /\ p3 \in T
  OBVIOUS
<1> HIDE DEF T, p1, p2, p3
<1>3. Unless0(p1) \in Seq(T) /\ Unless0(p2) \in Seq(T) /\ Unless0(p3) \in Seq(T)
  BY <1>2 DEF Unless0
<1>4. Unless0(p1) \o Unless0(p2) \o Unless0(p3) \in Seq(T)
  BY <1>3
<1>5. QED
  BY <1>1, <1>4, SeqCounted

\* What a cluster of a layout is: hosts, one at least, and a list of pools.
ClusterShape(cluster) == cluster.hosts \in Nat \ {0} /\ Counted(DOMAIN cluster.pools)

DatacenterShape(dc) ==
    Counted(DOMAIN dc.clusters) /\ \A c \in DOMAIN dc.clusters : ClusterShape(dc.clusters[c])

\* Every layout is a list of datacenters that are lists of clusters.
LEMMA LayoutShape ==
    ASSUME flags \in Flags
    PROVE  /\ Counted(DOMAIN Layout)
           /\ \A d \in DOMAIN Layout :
                /\ Counted(DOMAIN Clusters(d))
                /\ \A c \in DOMAIN Clusters(d) : ClusterShape(Clusters(d)[c])
<1>1. CASE flags.dc > 0
  <2>1. {flags.dc, flags.cluster, flags.host} \subseteq Int
    BY StartupAssumption
  <2>2. /\ AtLeast(flags.dc, 1) \in Nat /\ AtLeast(flags.cluster, 1) \in Nat
        /\ AtLeast(flags.host, 1) \in Nat \ {0}
    BY <2>1 DEF AtLeast
  <2>3. Layout = SimpleConfig(flags)
    BY <1>1 DEF Layout, LayoutOf
  <2>4. DOMAIN Layout = 1..AtLeast(flags.dc, 1)
    BY <2>3 DEF SimpleConfig
  <2>5. ASSUME NEW d \in DOMAIN Layout
        PROVE  /\ DOMAIN Clusters(d) = 1..AtLeast(flags.cluster, 1)
               /\ \A c \in DOMAIN Clusters(d) :
                    /\ Clusters(d)[c].hosts = AtLeast(flags.host, 1)
                    /\ Clusters(d)[c].pools = SimplePools(d, c, AtLeast(flags.vm, 0))
    BY <2>3 DEF Clusters, SimpleConfig, Datacenter, Cluster
  <2>6. ASSUME NEW d \in DOMAIN Layout, NEW c \in DOMAIN Clusters(d)
        PROVE  ClusterShape(Clusters(d)[c])
    BY <2>2, <2>5, SimplePoolsCounted DEF ClusterShape
  <2>7. QED
    BY <2>2, <2>4, <2>5, <2>6 DEF Counted
<1>2. CASE ~(flags.dc > 0)
  <2>1. Layout = <<dcUSEast, dcUSWest, dcEU, dcAPAC, dcDevLab>>
    BY <1>2 DEF Layout, LayoutOf, DefaultConfig
  <2>2. Counted(1..1) /\ Counted(1..2) /\ Counted(1..3) /\ Counted(1..4) /\ Counted(1..5)
    BY DEF Counted
  <2>3. DatacenterShape(dcUSEast)
    BY <2>2 DEF dcUSEast, Datacenter, Cluster, DatacenterShape, ClusterShape
  <2>4. DatacenterShape(dcUSWest)
    BY <2>2 DEF dcUSWest, Datacenter, Cluster, DatacenterShape, ClusterShape
  <2>5. DatacenterShape(dcEU)
    BY <2>2 DEF dcEU, Datacenter, Cluster, DatacenterShape, ClusterShape
  <2>6. DatacenterShape(dcAPAC)
    BY <2>2 DEF dcAPAC, Datacenter, Cluster, DatacenterShape, ClusterShape
  <2>7. DatacenterShape(dcDevLab)
    BY <2>2 DEF dcDevLab, Datacenter, Cluster, DatacenterShape, ClusterShape
  <2>8. \A d \in DOMAIN Layout : DatacenterShape(Layout[d])
    BY <2>1, <2>3, <2>4, <2>5, <2>6, <2>7
  <2>9. DOMAIN Layout = 1..5
    BY <2>1
  <2>10. QED
    BY <2>2, <2>8, <2>9 DEF Clusters, DatacenterShape
<1>3. QED
  BY <1>1, <1>2

LEMMA LayoutHosts ==
    ASSUME flags \in Flags, NEW d \in DOMAIN Layout, NEW c \in DOMAIN Clusters(d)
    PROVE  Clusters(d)[c].hosts \in Nat \ {0}
BY LayoutShape DEF ClusterShape

-----------------------------------------------------------------------------
(* The inductive invariant.  The hook looks a host up by its name in a     *)
(* registry that holds the hosts of all clusters: what it finds is right   *)
(* because the entry of the host about to be added was written last.  The  *)
(* datastore is mounted on hosts that exist because the loop over the      *)
(* hosts has been through.                                                 *)

InCluster == phase \in {"register", "addHost", "mount", "rootPool", "pool", "vms"}

ControlOK ==
    /\ flags \in Flags /\ phase \in Phase
    /\ outcome \in {"none", "complete", "failed"} /\ faults \in 0..MaxFaults

\* The conjuncts of TypeOK about where the builder is, and about the inventory.
Within ==
    /\ Building /\ phase # "datacenter" => at.dc \in dcs
    /\ InCluster => ThisCluster \in DOMAIN clusterHost
    /\ phase = "vms" => ThisPool \in DOMAIN pools

TreeOK ==
    /\ dcs \subseteq DOMAIN Layout
    /\ \A k \in DOMAIN clusterHost : k[1] \in dcs /\ k[2] \in DOMAIN Clusters(k[1])
    /\ \A h \in DOMAIN hardware : <<h[1], h[2]>> \in DOMAIN clusterHost
    /\ \A k \in DOMAIN pools : <<k[1], k[2]>> \in DOMAIN clusterHost
    /\ mounts \subseteq DOMAIN hardware

Place == at \in [dc : Nat \ {0}, cluster : Nat \ {0}, host : Nat \ {0}, pool : Nat \ {0}]

\* The hosts of this cluster that have been added.
Added ==
    /\ phase \in {"register", "addHost"} =>
         \A i \in Nat \ {0} : i < at.host => <<at.dc, at.cluster, i>> \in DOMAIN hardware
    /\ phase = "mount" =>
         \A i \in Nat \ {0} : i <= Config.hosts => <<at.dc, at.cluster, i>> \in DOMAIN hardware

Registered ==
    phase = "addHost" =>
        LookupHostProfile(HostName(at.dc, at.cluster, at.host))
            = ProfileForHost(Config.name, at.host)

Standing == Within /\ Place /\ Added /\ Registered

StartupInv ==
    /\ ControlOK /\ expired \in BOOLEAN
    /\ TreeOK /\ HostsCustomized
    /\ Standing

LEMMA StartupInvTypeOK == StartupInv => TypeOK
BY DEF StartupInv, ControlOK, TreeOK, Standing, Within, InCluster, TypeOK

LEMMA StartupInit == Init => StartupInv
<1> SUFFICES ASSUME Init PROVE StartupInv
  OBVIOUS
<1>1. ControlOK
  BY StartupAssumption DEF Init, ControlOK, Phase
<1>2. expired \in BOOLEAN
  BY Zenon DEF Init
<1>3. TreeOK /\ HostsCustomized
  BY DEF Init, TreeOK, HostsCustomized, Empty
<1>4. Standing
  BY DEF Init, Standing, Within, Place, Added, Registered, Building, InCluster
<1>5. QED
  BY <1>1, <1>2, <1>3, <1>4 DEF StartupInv

\* The layout does not change.
LEMMA SameLayout ==
    ASSUME flags' = flags
    PROVE  Layout' = Layout /\ \A d : Clusters(d)' = Clusters(d)
BY DEF Layout, Clusters

\* The builder is at a cluster of its layout.
LEMMA HereInLayout ==
    ASSUME StartupInv, InCluster
    PROVE  /\ at.dc \in dcs /\ at.dc \in DOMAIN Layout
           /\ at.cluster \in DOMAIN Clusters(at.dc)
           /\ Config.hosts \in Nat \ {0}
           /\ ThisCluster \in DOMAIN clusterHost
<1>1. at.dc \in dcs /\ at.dc \in DOMAIN Layout /\ ThisCluster \in DOMAIN clusterHost
  BY DEF StartupInv, Standing, Within, TreeOK, InCluster, Building
<1>2. at.cluster \in DOMAIN Clusters(at.dc)
  BY <1>1 DEF StartupInv, TreeOK, ThisCluster
<1>3. QED
  BY <1>1, <1>2, LayoutHosts DEF StartupInv, ControlOK, Config

\* A step that leaves the inventory alone.
LEMMA TreeUnchanged ==
    ASSUME StartupInv, flags' = flags, UNCHANGED tree
    PROVE  TreeOK' /\ HostsCustomized'
<1>1. UNCHANGED <<dcs, clusterHost, hardware, mounts, pools>>
  BY DEF tree
<1>2. TreeOK'
  BY <1>1, SameLayout DEF StartupInv, TreeOK
<1>3. HostsCustomized'
  BY <1>1, SameLayout DEF StartupInv, HostsCustomized
<1>4. QED
  BY <1>2, <1>3

\* Outside the loops of the builder there is nothing to know.
LEMMA StandingOutside ==
    ASSUME Place', phase' \in {"start", "newBuilder", "datacenter", "close", "connect", "ready",
                               "exit"}
    PROVE  Standing'
BY DEF Standing, Within, Added, Registered, Building, InCluster

-----------------------------------------------------------------------------
(* Control.                                                                *)

LEMMA ControlStep ==
    ASSUME StartupInv, Next
    PROVE  ControlOK' /\ flags' = flags /\ expired' \in BOOLEAN
<1>1. flags' = flags
  BY DEF Next, BuildStep, MainStep, CreateDatacenter, CreateCluster, RegisterHostProfile,
         addHostToCluster, HostsAdded, createSharedDatastore, DatastoreShared, ResourcePool,
         CreateResourcePool, createVMs, createNoVMs, ClusterBuilt, DatacenterBuilt, BuildComplete,
         CallFails, Serve, NewBuilder, NoBuilder, Close, ConnectManager, Deadline, Fatal,
         Shutdown, Answered, Goto
<1>2. expired' \in {expired, TRUE}
  BY DEF Next, BuildStep, MainStep, CreateDatacenter, CreateCluster, RegisterHostProfile,
         addHostToCluster, HostsAdded, createSharedDatastore, DatastoreShared, ResourcePool,
         CreateResourcePool, createVMs, createNoVMs, ClusterBuilt, DatacenterBuilt, BuildComplete,
         CallFails, Serve, NewBuilder, NoBuilder, Close, ConnectManager, Deadline, Fatal,
         Shutdown, Answered, Goto
<1>3. expired' \in BOOLEAN
  BY <1>2, Zenon DEF StartupInv
<1>4. phase' \in Phase
  BY DEF Next, BuildStep, MainStep, CreateDatacenter, CreateCluster, RegisterHostProfile,
         addHostToCluster, HostsAdded, createSharedDatastore, DatastoreShared, ResourcePool,
         CreateResourcePool, createVMs, createNoVMs, ClusterBuilt, DatacenterBuilt, BuildComplete,
         CallFails, Serve, NewBuilder, NoBuilder, Close, ConnectManager, Deadline, Fatal,
         Shutdown, Answered, Goto, Phase, StartupInv, ControlOK
<1>5. outcome' \in {"none", "complete", "failed"}
  BY DEF Next, BuildStep, MainStep, CreateDatacenter, CreateCluster, RegisterHostProfile,
         addHostToCluster, HostsAdded, createSharedDatastore, DatastoreShared, ResourcePool,
         CreateResourcePool, createVMs, createNoVMs, ClusterBuilt, DatacenterBuilt, BuildComplete,
         CallFails, Serve, NewBuilder, NoBuilder, Close, ConnectManager, Deadline, Fatal,
         Shutdown, Answered, Goto, StartupInv, ControlOK
<1>6. faults' = faults \/ Fault
  BY DEF Next, BuildStep, MainStep, CreateDatacenter, CreateCluster, RegisterHostProfile,
         addHostToCluster, HostsAdded, createSharedDatastore, DatastoreShared, ResourcePool,
         CreateResourcePool, createVMs, createNoVMs, ClusterBuilt, DatacenterBuilt, BuildComplete,
         CallFails, TooLate, Serve, NewBuilder, NoBuilder, Close, ConnectManager, Deadline, Fatal,
         Shutdown, Answered, Goto
<1>7. faults' \in 0..MaxFaults
  BY <1>6, StartupAssumption DEF Fault, StartupInv, ControlOK
<1>8. QED
  BY <1>1, <1>3, <1>4, <1>5, <1>7 DEF ControlOK, StartupInv

-----------------------------------------------------------------------------
(* One step per action of the builder that changes the inventory.          *)

LEMMA DatacenterStep ==
    ASSUME StartupInv, CreateDatacenter, flags' = flags
    PROVE  TreeOK' /\ HostsCustomized' /\ Standing'
<1>1. /\ phase = "datacenter" /\ at.dc \in DOMAIN Layout /\ dcs' = dcs \union {at.dc}
      /\ UNCHANGED <<clusterHost, hardware, mounts, pools, registry>>
      /\ \/ phase' = "cluster" /\ at' = [at EXCEPT !.cluster = 1]
         \/ phase' = "close" /\ at' = at
  BY DEF CreateDatacenter, Answered
<1>2. TreeOK'
  BY <1>1, SameLayout DEF StartupInv, TreeOK
<1>3. HostsCustomized'
  BY <1>1, SameLayout DEF StartupInv, HostsCustomized
<1>4. Place'
  BY <1>1 DEF StartupInv, Standing, Place
<1>5. Standing'
  BY <1>1, <1>4 DEF StartupInv, Standing, Within, Place, Added, Registered, Building, InCluster
<1>6. QED
  BY <1>2, <1>3, <1>5

LEMMA ClusterStep ==
    ASSUME StartupInv, CreateCluster, flags' = flags
    PROVE  TreeOK' /\ HostsCustomized' /\ Standing'
<1>1. /\ phase = "cluster" /\ at.cluster \in DOMAIN Clusters(at.dc)
      /\ clusterHost' = Put(clusterHost, ThisCluster, <<>>)
      /\ UNCHANGED <<dcs, hardware, mounts, pools, registry>>
      /\ \/ phase' = "register" /\ at' = [at EXCEPT !.host = 1]
         \/ phase' = "close" /\ at' = at
  BY DEF CreateCluster, Answered
<1>2. DOMAIN clusterHost' = DOMAIN clusterHost \union {ThisCluster} /\ at.dc \in dcs
  BY <1>1 DEF Put, StartupInv, Standing, Within, Building
<1>3. TreeOK'
  BY <1>1, <1>2, SameLayout DEF StartupInv, TreeOK, ThisCluster
<1>4. HostsCustomized'
  BY <1>1, SameLayout DEF StartupInv, HostsCustomized
<1>5. Place'
  BY <1>1 DEF StartupInv, Standing, Place
<1>6. Within'
  BY <1>1, <1>2 DEF StartupInv, Standing, Within, Place, Building, InCluster, ThisCluster
<1>7. Added' /\ Registered'
  BY <1>1 DEF StartupInv, Standing, Place, Added, Registered
<1>8. QED
  BY <1>3, <1>4, <1>5, <1>6, <1>7 DEF Standing

LEMMA RegisterStep ==
    ASSUME StartupInv, RegisterHostProfile, flags' = flags
    PROVE  TreeOK' /\ HostsCustomized' /\ Standing'
<1>1. /\ phase = "register" /\ phase' = "addHost" /\ UNCHANGED <<at, tree>>
      /\ registry' = Put(registry, HostName(at.dc, at.cluster, at.host),
                         ProfileForHost(Config.name, at.host))
  BY DEF RegisterHostProfile, Goto
<1>2. UNCHANGED <<dcs, clusterHost, hardware, mounts, pools>>
  BY <1>1 DEF tree
<1>3. Registered'
  <2> DEFINE n == HostName(at.dc, at.cluster, at.host)
             p == ProfileForHost(Config.name, at.host)
  <2>1. n' = n /\ p' = p
    BY <1>1, SameLayout DEF HostName, Config
  <2>2. n \in DOMAIN registry' /\ registry'[n] = p
    BY <1>1 DEF Put
  <2>3. LookupHostProfile(n)' = p
    BY <2>1, <2>2 DEF LookupHostProfile
  <2>4. QED
    BY <2>1, <2>3 DEF Registered
<1>4. Place' /\ Within'
  BY <1>1, <1>2 DEF StartupInv, Standing, Place, Within, Building, InCluster, ThisCluster
<1>5. Added'
  BY <1>1, <1>2 DEF StartupInv, Standing, Added
<1>6. QED
  BY <1>1, <1>3, <1>4, <1>5, TreeUnchanged DEF Standing

LEMMA AddHostStep ==
    ASSUME StartupInv, addHostToCluster, flags' = flags
    PROVE  TreeOK' /\ HostsCustomized' /\ Standing'
<1> DEFINE p == LookupHostProfile(HostName(at.dc, at.cluster, at.host))
<1>1. /\ phase = "addHost" /\ InCluster
      /\ clusterHost' = [clusterHost EXCEPT ![ThisCluster] = Append(@, ThisHost)]
      /\ UNCHANGED <<dcs, mounts, pools, registry>>
      /\ \/ phase' = "register" /\ at' = [at EXCEPT !.host = @ + 1]
         \/ phase' = "close" /\ at' = at
  BY DEF addHostToCluster, Answered, InCluster
<1>2. hardware' = Put(hardware, ThisHost, p)
  BY DEF addHostToCluster, HostCustomizationFunc, Apply
<1>3. p = ProfileForHost(Config.name, at.host)
  BY <1>1 DEF StartupInv, Standing, Registered
<1> HIDE DEF p
<1>4. /\ DOMAIN clusterHost' = DOMAIN clusterHost
      /\ DOMAIN hardware' = DOMAIN hardware \union {ThisHost}
  BY <1>1, <1>2 DEF Put
<1>5. TreeOK'
  BY <1>1, <1>4, SameLayout, HereInLayout DEF StartupInv, TreeOK, ThisCluster, ThisHost
<1>6. HostsCustomized'
  <2> SUFFICES ASSUME NEW h \in DOMAIN hardware'
               PROVE  /\ h[1] \in DOMAIN Layout /\ h[2] \in DOMAIN Clusters(h[1])
                      /\ hardware'[h] = ProfileForHost(Clusters(h[1])[h[2]].name, h[3])
    BY SameLayout DEF HostsCustomized
  <2>1. CASE h = ThisHost
    <3>1. h[1] = at.dc /\ h[2] = at.cluster /\ h[3] = at.host
      BY <2>1 DEF ThisHost
    <3>2. hardware'[h] = p
      BY <1>2, <2>1 DEF Put
    <3>3. QED
      BY <1>1, <1>3, <3>1, <3>2, HereInLayout DEF Config
  <2>2. CASE h # ThisHost
    <3>1. h \in DOMAIN hardware /\ hardware'[h] = hardware[h]
      BY <1>2, <1>4, <2>2 DEF Put
    <3>2. QED
      BY <3>1 DEF StartupInv, HostsCustomized
  <2>3. QED
    BY <2>1, <2>2
<1>7. Place'
  BY <1>1 DEF StartupInv, Standing, Place
<1>8. Within'
  BY <1>1, <1>4, HereInLayout DEF StartupInv, Standing, Within, Place, Building, InCluster, ThisCluster
<1>9. Added' /\ Registered'
  <2>1. Registered'
    BY <1>1 DEF Registered
  <2>2. CASE phase' = "close"
    BY <2>1, <2>2 DEF Added
  <2>3. CASE phase' = "register" /\ at' = [at EXCEPT !.host = @ + 1]
    <3>1. ASSUME NEW i \in Nat \ {0}, i < at.host + 1
          PROVE  <<at.dc, at.cluster, i>> \in DOMAIN hardware'
      BY <1>1, <1>4, <3>1 DEF StartupInv, Standing, Place, Added, ThisHost
    <3>2. at'.host = at.host + 1 /\ at'.dc = at.dc /\ at'.cluster = at.cluster
      BY <2>3 DEF StartupInv, Standing, Place
    <3>3. QED
      BY <2>1, <2>3, <3>1, <3>2 DEF Added
  <2>4. QED
    BY <1>1, <2>2, <2>3
<1>10. QED
  BY <1>5, <1>6, <1>7, <1>8, <1>9 DEF Standing

LEMMA MountStep ==
    ASSUME StartupInv, createSharedDatastore, flags' = flags
    PROVE  TreeOK' /\ HostsCustomized' /\ Standing'
<1>1. /\ phase = "mount" /\ InCluster /\ at.host <= Config.hosts
      /\ mounts' = mounts \union {ThisHost}
      /\ UNCHANGED <<dcs, clusterHost, hardware, pools, registry>>
      /\ \/ phase' = "mount" /\ at' = [at EXCEPT !.host = @ + 1]
         \/ phase' = "close" /\ at' = at
  BY DEF createSharedDatastore, Answered, InCluster
<1>2. ThisHost \in DOMAIN hardware
  BY <1>1 DEF StartupInv, Standing, Place, Added, ThisHost
<1>3. TreeOK'
  BY <1>1, <1>2, SameLayout DEF StartupInv, TreeOK
<1>4. HostsCustomized'
  BY <1>1, SameLayout DEF StartupInv, HostsCustomized
<1>5. Place' /\ Within'
  BY <1>1, HereInLayout DEF StartupInv, Standing, Within, Place, Building, InCluster, ThisCluster
<1>6. Config' = Config /\ at'.dc = at.dc /\ at'.cluster = at.cluster
  BY <1>1, SameLayout DEF StartupInv, Standing, Place, Config
<1>7. Added' /\ Registered'
  BY <1>1, <1>6 DEF StartupInv, Standing, Added, Registered
<1>8. QED
  BY <1>3, <1>4, <1>5, <1>7 DEF Standing

LEMMA PoolStep ==
    ASSUME StartupInv, CreateResourcePool, flags' = flags
    PROVE  TreeOK' /\ HostsCustomized' /\ Standing'
<1>1. /\ phase = "pool" /\ InCluster /\ at' = at /\ phase' \in {"vms", "close"}
      /\ pools' = Put(pools, ThisPool, [created |-> 0, on |-> 0])
      /\ UNCHANGED <<dcs, clusterHost, hardware, mounts, registry>>
  BY DEF CreateResourcePool, Answered, InCluster
<1>2. DOMAIN pools' = DOMAIN pools \union {ThisPool}
  BY <1>1 DEF Put
<1>3. TreeOK'
  BY <1>1, <1>2, SameLayout, HereInLayout DEF StartupInv, TreeOK, ThisPool, ThisCluster
<1>4. HostsCustomized'
  BY <1>1, SameLayout DEF StartupInv, HostsCustomized
<1>5. Standing'
  BY <1>1, <1>2, HereInLayout
     DEF StartupInv, Standing, Place, Within, Added, Registered, Building, InCluster, ThisCluster,
         ThisPool
<1>6. QED
  BY <1>3, <1>4, <1>5

LEMMA VMStep ==
    ASSUME StartupInv, createVMs, flags' = flags
    PROVE  TreeOK' /\ HostsCustomized' /\ Standing'
<1>1. /\ phase = "vms" /\ InCluster /\ phase' = "pool" /\ at' = [at EXCEPT !.pool = @ + 1]
      /\ DOMAIN pools' = DOMAIN pools /\ DOMAIN clusterHost' = DOMAIN clusterHost
      /\ UNCHANGED <<dcs, hardware, mounts, registry>>
  BY DEF createVMs, InCluster
<1>2. TreeOK'
  BY <1>1, SameLayout DEF StartupInv, TreeOK
<1>3. HostsCustomized'
  BY <1>1, SameLayout DEF StartupInv, HostsCustomized
<1>4. Standing'
  BY <1>1, HereInLayout
     DEF StartupInv, Standing, Place, Within, Added, Registered, Building, InCluster, ThisCluster
<1>5. QED
  BY <1>2, <1>3, <1>4

-----------------------------------------------------------------------------
(* The steps that leave the inventory alone.                               *)

LEMMA HostsAddedStep ==
    ASSUME StartupInv, HostsAdded, flags' = flags
    PROVE  Standing'
<1>1. /\ phase = "register" /\ InCluster /\ at.host > Config.hosts
      /\ phase' = "mount" /\ at' = [at EXCEPT !.host = 1]
      /\ UNCHANGED <<dcs, clusterHost, hardware, pools>>
  BY DEF HostsAdded, InCluster, tree
<1>2. /\ Config' = Config /\ Config.hosts \in Int
      /\ at.host \in Nat /\ at'.dc = at.dc /\ at'.cluster = at.cluster
  BY <1>1, SameLayout, HereInLayout DEF StartupInv, Standing, Place, Config
<1>3. Place' /\ Within'
  BY <1>1, HereInLayout DEF StartupInv, Standing, Within, Place, Building, InCluster, ThisCluster
<1>4. Added' /\ Registered'
  BY <1>1, <1>2 DEF StartupInv, Standing, Added, Registered
<1>5. QED
  BY <1>3, <1>4 DEF Standing

\* Between the datastore and the next cluster.
LEMMA LateStep ==
    ASSUME StartupInv, DatastoreShared \/ ResourcePool \/ createNoVMs, flags' = flags
    PROVE  Standing'
<1>1. /\ InCluster /\ phase' \in {"rootPool", "pool", "close"}
      /\ at' \in {at, [at EXCEPT !.pool = 1], [at EXCEPT !.pool = @ + 1]}
      /\ UNCHANGED <<dcs, clusterHost, hardware, pools>>
  BY DEF DatastoreShared, ResourcePool, createNoVMs, Answered, Goto, InCluster, tree
<1>2. Place' /\ at'.dc = at.dc /\ at'.cluster = at.cluster
  BY <1>1 DEF StartupInv, Standing, Place
<1>3. QED
  BY <1>1, <1>2, HereInLayout
     DEF Standing, Within, Added, Registered, Building, InCluster, ThisCluster

LEMMA ClusterBuiltStep ==
    ASSUME StartupInv, ClusterBuilt, flags' = flags
    PROVE  Standing'
<1>1. /\ InCluster /\ phase' = "cluster" /\ at' = [at EXCEPT !.cluster = @ + 1] /\ dcs' = dcs
  BY DEF ClusterBuilt, InCluster, tree
<1>2. QED
  BY <1>1, HereInLayout DEF StartupInv, Standing, Place, Within, Added, Registered, InCluster, Building

LEMMA DeadlineStep ==
    ASSUME StartupInv, Deadline \/ UNCHANGED vars, flags' = flags
    PROVE  Standing'
<1>1. UNCHANGED <<phase, at, dcs, clusterHost, hardware, pools, registry>>
  BY DEF Deadline, tree, vars, main
<1>2. Config' = Config /\ \A n : LookupHostProfile(n)' = LookupHostProfile(n)
  BY <1>1, SameLayout DEF Config, LookupHostProfile
<1>3. HostName(at.dc, at.cluster, at.host)' = HostName(at.dc, at.cluster, at.host)
  BY <1>1, SameLayout DEF HostName
<1>4. Registered'
  BY <1>1, <1>2, <1>3 DEF StartupInv, Standing, Registered
<1>5. QED
  BY <1>1, <1>2, <1>4
     DEF StartupInv, Standing, Place, Within, Added, Building, InCluster, ThisCluster, ThisPool

LEMMA OutsideStep ==
    ASSUME StartupInv,
           \/ DatacenterBuilt \/ BuildComplete \/ CallFails \/ MainStep \/ Fatal \/ Shutdown
    PROVE  Standing'
<1>1. /\ phase' \in {"start", "newBuilder", "datacenter", "close", "connect", "ready", "exit"}
      /\ at' \in {at, [at EXCEPT !.dc = @ + 1]}
  BY DEF DatacenterBuilt, BuildComplete, CallFails, MainStep, Serve, NewBuilder, NoBuilder, Close,
         ConnectManager, Fatal, Shutdown, Goto
<1>2. Place'
  BY <1>1 DEF StartupInv, Standing, Place
<1>3. QED
  BY <1>1, <1>2, StandingOutside

LEMMA StartupStep == StartupInv /\ [Next]_vars => StartupInv'
<1> SUFFICES ASSUME StartupInv, [Next]_vars PROVE StartupInv'
  OBVIOUS
<1>1. CASE UNCHANGED vars
  <2>1. flags' = flags /\ UNCHANGED tree /\ ControlOK' /\ expired' = expired
    BY <1>1 DEF vars, main, StartupInv, ControlOK
  <2>2. expired' \in BOOLEAN
    BY <2>1, Zenon DEF StartupInv
  <2>3. QED
    BY <1>1, <2>1, <2>2, TreeUnchanged, DeadlineStep DEF StartupInv
<1>2. CASE Next
  <2>1. ControlOK' /\ flags' = flags /\ expired' \in BOOLEAN
    BY <1>2, ControlStep
  <2>2. CASE \/ CreateDatacenter \/ CreateCluster \/ RegisterHostProfile \/ addHostToCluster
             \/ createSharedDatastore \/ CreateResourcePool \/ createVMs
    <3>1. TreeOK' /\ HostsCustomized' /\ Standing'
      BY <2>1, <2>2, DatacenterStep, ClusterStep, RegisterStep, AddHostStep, MountStep, PoolStep,
         VMStep
    <3>2. QED
      BY <2>1, <3>1 DEF StartupInv
  <2>3. CASE \/ HostsAdded \/ DatastoreShared \/ ResourcePool \/ createNoVMs \/ ClusterBuilt
             \/ Deadline
             \/ DatacenterBuilt \/ BuildComplete \/ CallFails \/ MainStep \/ Fatal \/ Shutdown
    <3>1. Standing'
      BY <2>1, <2>3, HostsAddedStep, LateStep, ClusterBuiltStep, DeadlineStep, OutsideStep
    <3>2. UNCHANGED tree
      BY <2>3 DEF HostsAdded, DatastoreShared, ResourcePool, createNoVMs, ClusterBuilt, Deadline,
                  DatacenterBuilt, BuildComplete, CallFails, MainStep, Serve, NewBuilder,
                  NoBuilder, Close, ConnectManager, Fatal, Shutdown
    <3>3. QED
      BY <2>1, <3>1, <3>2, TreeUnchanged DEF StartupInv
  <2>4. QED
    BY <1>2, <2>2, <2>3 DEF Next, BuildStep
<1>3. QED
  BY <1>1, <1>2

\* The builder's counters stay in its layout while they are used, and every part
\* of the inventory belongs to the part above it, whatever calls fail.
THEOREM StartupTypeOK == Spec => []TypeOK
<1>1. QED
  BY StartupInit, StartupStep, StartupInvTypeOK, PTL DEF Spec

\* Every host was customized with the profile of its cluster and position.
THEOREM StartupHostsCustomized == Spec => []HostsCustomized
<1>1. StartupInv => HostsCustomized
  BY DEF StartupInv
<1>2. QED
  BY <1>1, StartupInit, StartupStep, PTL DEF Spec

-----------------------------------------------------------------------------
(* The order of the build.  Its loops go through the layout in its order,  *)
(* so the clusters before the place the builder is at are whole, and none  *)
(* comes after it; of the cluster it is at, the hosts listed, the hosts    *)
(* with the datastore and the pools are those its loops have been through. *)

PrefixOf(d0, c0) ==
    /\ \A d \in DOMAIN Layout : d < d0 => d \in dcs
    /\ \A d \in DOMAIN Layout : \A c \in DOMAIN Clusters(d) :
         d < d0 \/ (d = d0 /\ c < c0) => Built(d, c)
    /\ \A k \in DOMAIN clusterHost : k[1] < d0 \/ (k[1] = d0 /\ k[2] <= c0)

Frontier ==
    /\ phase \in {"start", "newBuilder", "datacenter"} => PrefixOf(at.dc, 0)
    /\ phase = "cluster" \/ InCluster => PrefixOf(at.dc, at.cluster)

Fill(d, c, n) == [i \in 1..n |-> <<d, c, i>>]

HostsHere ==
    /\ phase \in {"register", "addHost"} =>
         /\ at.host <= Config.hosts + 1
         /\ clusterHost[ThisCluster] = Fill(at.dc, at.cluster, at.host - 1)
    /\ phase = "addHost" => at.host <= Config.hosts
    /\ phase \in {"mount", "rootPool", "pool", "vms"} =>
         clusterHost[ThisCluster] = Fill(at.dc, at.cluster, Config.hosts)

MountsHere ==
    /\ phase = "mount" => \A i \in 1..(at.host - 1) : <<at.dc, at.cluster, i>> \in mounts
    /\ phase \in {"rootPool", "pool", "vms"} =>
         \A i \in 1..Config.hosts : <<at.dc, at.cluster, i>> \in mounts

PoolsHere ==
    /\ phase = "pool" =>
         \A p \in DOMAIN Config.pools : p < at.pool => <<at.dc, at.cluster, p>> \in DOMAIN pools
    /\ phase = "vms" =>
         \A p \in DOMAIN Config.pools : p <= at.pool => <<at.dc, at.cluster, p>> \in DOMAIN pools

Here == HostsHere /\ MountsHere /\ PoolsHere

Undecided == Building \/ phase \in {"start", "newBuilder"} => outcome = "none"

Progress == Frontier /\ Here /\ Undecided /\ FailureLeavesPrefix /\ CompleteMeansBuilt

OrderInv == StartupInv /\ Progress

LEMMA ProgressInit == Init => Progress
<1> SUFFICES ASSUME Init PROVE Progress
  OBVIOUS
<1>1. phase = "start" /\ at.dc = 1 /\ outcome = "none" /\ DOMAIN clusterHost = {} /\ flags \in Flags
  BY DEF Init, Empty
<1>2. \A d \in DOMAIN Layout : d \in Nat \ {0}
  BY <1>1, LayoutShape, CountedPos
<1>3. PrefixOf(at.dc, 0)
  BY <1>1, <1>2 DEF PrefixOf
<1>4. Frontier /\ Here /\ Undecided
  BY <1>1, <1>3 DEF Frontier, Here, HostsHere, MountsHere, PoolsHere, Undecided, InCluster
<1>5. FailureLeavesPrefix /\ CompleteMeansBuilt
  BY <1>1 DEF FailureLeavesPrefix, CompleteMeansBuilt
<1>6. QED
  BY <1>4, <1>5 DEF Progress

\* The numbers of the layout and of the place.
LEMMA Numbers ==
    ASSUME StartupInv
    PROVE  /\ flags \in Flags /\ Counted(DOMAIN Layout)
           /\ \A d \in DOMAIN Layout : d \in Nat \ {0}
           /\ \A d \in DOMAIN Layout : \A c \in DOMAIN Clusters(d) : c \in Nat \ {0}
           /\ \A k \in DOMAIN clusterHost : k[1] \in Nat \ {0} /\ k[2] \in Nat \ {0}
           /\ at.dc \in Nat \ {0} /\ at.cluster \in Nat \ {0}
           /\ at.host \in Nat \ {0} /\ at.pool \in Nat \ {0}
<1>1. flags \in Flags
  BY DEF StartupInv, ControlOK
<1>2. Counted(DOMAIN Layout) /\ \A d \in DOMAIN Layout : Counted(DOMAIN Clusters(d))
  BY <1>1, LayoutShape
<1>3. \A d \in DOMAIN Layout : d \in Nat \ {0}
  BY <1>2, CountedPos
<1>4. \A d \in DOMAIN Layout : \A c \in DOMAIN Clusters(d) : c \in Nat \ {0}
  BY <1>2, CountedPos
<1>5. \A k \in DOMAIN clusterHost : k[1] \in DOMAIN Layout /\ k[2] \in DOMAIN Clusters(k[1])
  BY DEF StartupInv, TreeOK
<1>6. QED
  BY <1>1, <1>2, <1>3, <1>4, <1>5 DEF StartupInv, Standing, Place

\* A prefix of the layout is what FailureLeavesPrefix asks for.
LEMMA PrefixSuffices ==
    ASSUME StartupInv, NEW d0 \in Int, NEW c0 \in Int, PrefixOf(d0, c0)
    PROVE  FailureLeavesPrefix
<1> SUFFICES ASSUME NEW d \in DOMAIN Layout, NEW c \in DOMAIN Clusters(d), ~Built(d, c),
                    NEW k \in DOMAIN clusterHost
             PROVE  k[1] < d \/ (k[1] = d /\ k[2] <= c)
  BY DEF FailureLeavesPrefix
<1>1. d \in Nat /\ c \in Nat /\ k[1] \in Nat /\ k[2] \in Nat
  BY Numbers
<1>2. ~(d < d0 \/ (d = d0 /\ c < c0))
  BY DEF PrefixOf
<1>3. k[1] < d0 \/ (k[1] = d0 /\ k[2] <= c0)
  BY DEF PrefixOf
<1>4. QED
  BY <1>1, <1>2, <1>3

\* What is whole stays whole.
LEMMA BuiltKept ==
    ASSUME flags' = flags, NEW d, NEW c, Built(d, c),
           dcs \subseteq dcs', mounts \subseteq mounts', DOMAIN pools \subseteq DOMAIN pools',
           DOMAIN clusterHost \subseteq DOMAIN clusterHost',
           clusterHost'[<<d, c>>] = clusterHost[<<d, c>>]
    PROVE  Built(d, c)'
BY SameLayout DEF Built

\* A step at a place of the layout keeps what comes before the place.
LEMMA PrefixKept ==
    ASSUME StartupInv, flags' = flags, NEW d0 \in Int, NEW c0 \in Int, PrefixOf(d0, c0),
           dcs \subseteq dcs', mounts \subseteq mounts', DOMAIN pools \subseteq DOMAIN pools',
           DOMAIN clusterHost \subseteq DOMAIN clusterHost',
           DOMAIN clusterHost' \subseteq DOMAIN clusterHost \union {<<d0, c0>>},
           \A k \in DOMAIN clusterHost : k # <<d0, c0>> => clusterHost'[k] = clusterHost[k]
    PROVE  PrefixOf(d0, c0)'
<1>1. Layout' = Layout /\ \A d : Clusters(d)' = Clusters(d)
  BY SameLayout
<1>2. \A d \in DOMAIN Layout : d < d0 => d \in dcs'
  BY DEF PrefixOf
<1>3. ASSUME NEW d \in DOMAIN Layout, NEW c \in DOMAIN Clusters(d), d < d0 \/ (d = d0 /\ c < c0)
      PROVE  Built(d, c)'
  <2>1. Built(d, c)
    BY <1>3 DEF PrefixOf
  <2>2. <<d, c>> \in DOMAIN clusterHost
    BY <2>1 DEF Built
  <2>3. d \in Nat /\ c \in Nat
    BY Numbers
  <2>4. <<d, c>> # <<d0, c0>>
    BY <1>3, <2>3
  <2>5. QED
    BY <2>1, <2>2, <2>4, BuiltKept
<1>4. \A k \in DOMAIN clusterHost' : k[1] < d0 \/ (k[1] = d0 /\ k[2] <= c0)
  BY DEF PrefixOf
<1>5. QED
  BY <1>1, <1>2, <1>3, <1>4 DEF PrefixOf

LEMMA PrefixSame ==
    ASSUME flags' = flags, UNCHANGED <<dcs, clusterHost, mounts, pools>>
    PROVE  /\ \A d0, c0 : PrefixOf(d0, c0)' = PrefixOf(d0, c0)
           /\ FailureLeavesPrefix' = FailureLeavesPrefix
           /\ outcome' = outcome => CompleteMeansBuilt' = CompleteMeansBuilt
<1>1. Layout' = Layout /\ \A d : Clusters(d)' = Clusters(d)
  BY SameLayout
<1>2. \A d, c : Built(d, c)' = Built(d, c)
  BY <1>1 DEF Built
<1>3. QED
  BY <1>1, <1>2 DEF PrefixOf, FailureLeavesPrefix, CompleteMeansBuilt

\* The same of the state after a step.
LEMMA PrefixSufficesNext ==
    StartupInv' => \A d0, c0 \in Int : PrefixOf(d0, c0)' => FailureLeavesPrefix'
<1>1. StartupInv => \A d0, c0 \in Int : PrefixOf(d0, c0) => FailureLeavesPrefix
  BY PrefixSuffices
<1>2. (StartupInv => \A d0, c0 \in Int : PrefixOf(d0, c0) => FailureLeavesPrefix)'
  BY <1>1, PTL
<1>3. QED
  BY <1>2

LEMMA DatacenterOrder ==
    ASSUME StartupInv, Progress, StartupInv', CreateDatacenter, flags' = flags
    PROVE  Frontier' /\ Here' /\ FailureLeavesPrefix'
<1>1. /\ phase = "datacenter" /\ dcs' = dcs \union {at.dc}
      /\ UNCHANGED <<clusterHost, mounts, pools>>
      /\ \/ phase' = "cluster" /\ at' = [at EXCEPT !.cluster = 1]
         \/ phase' = "close" /\ at' = at
  BY DEF CreateDatacenter, Answered
<1>2. PICK d0 \in Int : d0 = at.dc
  BY Numbers
<1>3. PrefixOf(d0, 0)
  BY <1>1, <1>2 DEF Progress, Frontier
<1>4. PrefixOf(d0, 0)'
  BY <1>1, <1>3, PrefixKept
<1>5. FailureLeavesPrefix'
  BY <1>4, PrefixSufficesNext
<1>6. PrefixOf(d0, 1)'
  <2>1. Layout' = Layout /\ \A d : Clusters(d)' = Clusters(d)
    BY SameLayout
  <2>2. \A d \in DOMAIN Layout : \A c \in DOMAIN Clusters(d) : c \in Nat \ {0}
    BY Numbers
  <2>3. \A k \in DOMAIN clusterHost : k[1] \in Nat \ {0} /\ k[2] \in Nat \ {0}
    BY Numbers
  <2>4. QED
    BY <1>1, <1>4, <2>1, <2>2, <2>3 DEF PrefixOf
<1>7. Here'
  BY <1>1 DEF Here, HostsHere, MountsHere, PoolsHere
<1>8. Frontier'
  <2>1. at'.dc = d0 /\ (phase' = "cluster" => at'.cluster = 1)
    BY <1>1, <1>2 DEF StartupInv, Standing, Place
  <2>2. QED
    BY <1>1, <1>6, <2>1 DEF Frontier, InCluster
<1>9. QED
  BY <1>5, <1>7, <1>8

LEMMA ClusterOrder ==
    ASSUME StartupInv, Progress, StartupInv', CreateCluster, flags' = flags
    PROVE  Frontier' /\ Here' /\ FailureLeavesPrefix'
<1>1. /\ phase = "cluster" /\ at.cluster \in DOMAIN Clusters(at.dc)
      /\ clusterHost' = Put(clusterHost, ThisCluster, <<>>)
      /\ UNCHANGED <<dcs, mounts, pools>>
      /\ \/ phase' = "register" /\ at' = [at EXCEPT !.host = 1]
         \/ phase' = "close" /\ at' = at
  BY DEF CreateCluster, Answered
<1>2. PICK d0 \in Int, c0 \in Int : d0 = at.dc /\ c0 = at.cluster
  BY Numbers
<1>3. PrefixOf(d0, c0)
  BY <1>1, <1>2 DEF Progress, Frontier
<1>4. /\ DOMAIN clusterHost' = DOMAIN clusterHost \union {<<d0, c0>>}
      /\ clusterHost'[<<d0, c0>>] = <<>>
      /\ \A k \in DOMAIN clusterHost : k # <<d0, c0>> => clusterHost'[k] = clusterHost[k]
  BY <1>1, <1>2 DEF Put, ThisCluster
<1>5. PrefixOf(d0, c0)'
  BY <1>1, <1>3, <1>4, PrefixKept
<1>6. FailureLeavesPrefix'
  BY <1>5, PrefixSufficesNext
<1>7. at'.dc = d0 /\ at'.cluster = c0 /\ (phase' = "register" => at'.host = 1)
  BY <1>1, <1>2 DEF StartupInv, Standing, Place
<1>8. Frontier'
  BY <1>1, <1>5, <1>7 DEF Frontier, InCluster
<1>9. Here'
  <2>1. CASE phase' = "close"
    BY <2>1 DEF Here, HostsHere, MountsHere, PoolsHere
  <2>2. CASE phase' = "register"
    <3>1. Config'.hosts \in Nat \ {0}
      <4>1. Config' = Clusters(at.dc)[at.cluster]
        BY <1>2, <1>7, SameLayout DEF Config
      <4>2. at.dc \in DOMAIN Layout
        BY <1>1 DEF StartupInv, Standing, Within, Building, TreeOK
      <4>3. QED
        BY <1>1, <4>1, <4>2, LayoutHosts, Numbers
    <3>2. clusterHost'[ThisCluster'] = <<>>
      BY <1>4, <1>7 DEF ThisCluster
    <3>3. Fill(at.dc, at.cluster, at.host - 1)' = <<>>
      BY <1>7, <2>2 DEF Fill
    <3>4. HostsHere'
      BY <1>7, <2>2, <3>1, <3>2, <3>3 DEF HostsHere
    <3>5. QED
      BY <2>2, <3>4 DEF Here, MountsHere, PoolsHere
  <2>3. QED
    BY <1>1, <2>1, <2>2
<1>10. QED
  BY <1>6, <1>8, <1>9

\* What the steps within a cluster have in common.
LEMMA InClusterOrder ==
    ASSUME StartupInv, Progress, StartupInv', flags' = flags, InCluster,
           UNCHANGED dcs, mounts \subseteq mounts', DOMAIN pools \subseteq DOMAIN pools',
           DOMAIN clusterHost' = DOMAIN clusterHost,
           \A k \in DOMAIN clusterHost : k # ThisCluster => clusterHost'[k] = clusterHost[k],
           phase' = "close" \/ (at'.dc = at.dc /\ at'.cluster = at.cluster),
           phase' = "cluster" \/ InCluster' \/ phase' = "close"
    PROVE  /\ FailureLeavesPrefix'
           /\ phase' # "close" => Frontier' /\ Config' = Config /\ ThisCluster' = ThisCluster
           /\ phase' = "close" => Frontier' /\ Here'
<1>1. PICK d0 \in Int, c0 \in Int : d0 = at.dc /\ c0 = at.cluster
  BY Numbers
<1>2. PrefixOf(d0, c0)
  BY <1>1 DEF Progress, Frontier
<1>3. PrefixOf(d0, c0)'
  BY <1>1, <1>2, PrefixKept DEF ThisCluster
<1>4. FailureLeavesPrefix'
  BY <1>3, PrefixSufficesNext
<1>5. ASSUME phase' # "close" PROVE Frontier' /\ Config' = Config /\ ThisCluster' = ThisCluster
  <2>1. at'.dc = d0 /\ at'.cluster = c0
    BY <1>1, <1>5
  <2>2. Frontier'
    BY <1>3, <1>5, <2>1 DEF Frontier, InCluster
  <2>3. Config' = Config /\ ThisCluster' = ThisCluster
    BY <1>1, <2>1, SameLayout DEF Config, ThisCluster
  <2>4. QED
    BY <2>2, <2>3
<1>6. ASSUME phase' = "close" PROVE Frontier' /\ Here'
  BY <1>6 DEF Frontier, InCluster, Here, HostsHere, MountsHere, PoolsHere
<1>7. QED
  BY <1>4, <1>5, <1>6

LEMMA FillAppend ==
    ASSUME NEW d, NEW c, NEW n \in Nat
    PROVE  Append(Fill(d, c, n), <<d, c, n + 1>>) = Fill(d, c, n + 1)
<1> DEFINE T == {<<d, c, i>> : i \in Nat}
           f == Fill(d, c, n)
           g == Fill(d, c, n + 1)
           x == <<d, c, n + 1>>
<1>1. f \in Seq(T) /\ Len(f) = n /\ g \in Seq(T) /\ Len(g) = n + 1 /\ x \in T
  <2>1. \A m \in Nat : \A i \in 1..m : <<d, c, i>> \in T
    OBVIOUS
  <2> HIDE DEF T
  <2>2. \A m \in Nat : Fill(d, c, m) \in Seq(T) /\ Len(Fill(d, c, m)) = m
    BY <2>1 DEF Fill
  <2>3. n + 1 \in Nat /\ n + 1 \in 1..(n + 1)
    OBVIOUS
  <2>4. QED
    BY <2>1, <2>2, <2>3
<1>2. \A i \in 1..n : f[i] = g[i]
  BY DEF Fill
<1>3. g[n + 1] = x
  BY DEF Fill
<1> HIDE DEF T, f, g, x
<1>4. Append(f, x) \in Seq(T) /\ Len(Append(f, x)) = n + 1
      /\ \A i \in 1..(n + 1) : Append(f, x)[i] = IF i = n + 1 THEN x ELSE f[i]
  BY <1>1
<1>5. \A i \in 1..(n + 1) : Append(f, x)[i] = g[i]
  BY <1>2, <1>3, <1>4
<1>6. QED
  BY <1>1, <1>4, <1>5 DEF f, g, x

LEMMA AddHostOrder ==
    ASSUME StartupInv, Progress, StartupInv', addHostToCluster, flags' = flags
    PROVE  Frontier' /\ Here' /\ FailureLeavesPrefix'
<1>1. /\ phase = "addHost" /\ InCluster
      /\ clusterHost' = [clusterHost EXCEPT ![ThisCluster] = Append(clusterHost[ThisCluster], ThisHost)]
      /\ UNCHANGED <<dcs, mounts, pools>>
      /\ \/ phase' = "register" /\ at' = [at EXCEPT !.host = @ + 1]
         \/ phase' = "close" /\ at' = at
  BY DEF addHostToCluster, Answered, InCluster
<1>2. ThisCluster \in DOMAIN clusterHost /\ Config.hosts \in Nat \ {0} /\ at.host \in Nat \ {0}
  BY <1>1, HereInLayout, Numbers
<1>3. /\ DOMAIN clusterHost' = DOMAIN clusterHost
      /\ clusterHost'[ThisCluster] = Append(clusterHost[ThisCluster], ThisHost)
      /\ \A k \in DOMAIN clusterHost : k # ThisCluster => clusterHost'[k] = clusterHost[k]
  BY <1>1, <1>2
<1>4. phase' = "register" => at'.dc = at.dc /\ at'.cluster = at.cluster /\ at'.host = at.host + 1
  BY <1>1 DEF StartupInv, Standing, Place
<1>5. /\ FailureLeavesPrefix'
      /\ phase' # "close" => Frontier' /\ Config' = Config /\ ThisCluster' = ThisCluster
      /\ phase' = "close" => Frontier' /\ Here'
  BY <1>1, <1>3, <1>4, InClusterOrder DEF InCluster
<1>6. ASSUME phase' = "register" PROVE Here'
  <2>1. clusterHost[ThisCluster] = Fill(at.dc, at.cluster, at.host - 1) /\ at.host <= Config.hosts
    BY <1>1 DEF Progress, Here, HostsHere
  <2>2. Append(Fill(at.dc, at.cluster, at.host - 1), ThisHost) = Fill(at.dc, at.cluster, at.host)
    <3>1. at.host - 1 \in Nat /\ (at.host - 1) + 1 = at.host
      BY <1>2
    <3>2. QED
      BY <3>1, FillAppend DEF ThisHost
  <2>3. clusterHost'[ThisCluster] = Fill(at.dc, at.cluster, at.host)
    BY <1>3, <2>1, <2>2
  <2>4. Config' = Config /\ ThisCluster' = ThisCluster
    BY <1>5, <1>6
  <2>5. Fill(at.dc, at.cluster, at.host - 1)' = Fill(at.dc, at.cluster, at.host)
    BY <1>2, <1>4, <1>6 DEF Fill
  <2>6. HostsHere'
    BY <1>2, <1>4, <1>6, <2>1, <2>3, <2>4, <2>5 DEF HostsHere
  <2>7. QED
    BY <1>6, <2>6 DEF Here, MountsHere, PoolsHere
<1>7. QED
  BY <1>1, <1>5, <1>6

LEMMA MountOrder ==
    ASSUME StartupInv, Progress, StartupInv', createSharedDatastore, flags' = flags
    PROVE  Frontier' /\ Here' /\ FailureLeavesPrefix'
<1>1. /\ phase = "mount" /\ InCluster /\ mounts' = mounts \union {ThisHost}
      /\ UNCHANGED <<dcs, clusterHost, pools>>
      /\ \/ phase' = "mount" /\ at' = [at EXCEPT !.host = @ + 1]
         \/ phase' = "close" /\ at' = at
  BY DEF createSharedDatastore, Answered, InCluster
<1>2. at.host \in Nat \ {0}
  BY Numbers
<1>3. phase' = "mount" => at'.dc = at.dc /\ at'.cluster = at.cluster /\ at'.host = at.host + 1
  BY <1>1 DEF StartupInv, Standing, Place
<1>4. /\ FailureLeavesPrefix'
      /\ phase' # "close" => Frontier' /\ Config' = Config /\ ThisCluster' = ThisCluster
      /\ phase' = "close" => Frontier' /\ Here'
  BY <1>1, <1>3, InClusterOrder DEF InCluster
<1>5. ASSUME phase' = "mount" PROVE Here'
  <2>1. Config' = Config /\ ThisCluster' = ThisCluster
    BY <1>4, <1>5
  <2>2. HostsHere'
    <3>1. clusterHost[ThisCluster] = Fill(at.dc, at.cluster, Config.hosts)
      BY <1>1 DEF Progress, Here, HostsHere
    <3>2. Fill(at.dc, at.cluster, Config.hosts)' = Fill(at.dc, at.cluster, Config.hosts)
      BY <1>3, <1>5, <2>1 DEF Fill
    <3>3. QED
      BY <1>1, <1>5, <2>1, <3>1, <3>2 DEF HostsHere
  <2>3. \A i \in 1..(at.host - 1) : <<at.dc, at.cluster, i>> \in mounts
    BY <1>1 DEF Progress, Here, MountsHere
  <2>4. \A i \in 1..at.host : <<at.dc, at.cluster, i>> \in mounts'
    BY <1>1, <1>2, <2>3 DEF ThisHost
  <2>5. at'.host - 1 = at.host
    BY <1>2, <1>3, <1>5
  <2>6. MountsHere'
    BY <1>3, <1>5, <2>4, <2>5 DEF MountsHere
  <2>7. QED
    BY <1>5, <2>2, <2>6 DEF Here, PoolsHere
<1>6. QED
  BY <1>1, <1>4, <1>5

LEMMA PoolOrder ==
    ASSUME StartupInv, Progress, StartupInv', CreateResourcePool, flags' = flags
    PROVE  Frontier' /\ Here' /\ FailureLeavesPrefix'
<1>1. /\ phase = "pool" /\ InCluster /\ at' = at /\ phase' \in {"vms", "close"}
      /\ pools' = Put(pools, ThisPool, [created |-> 0, on |-> 0])
      /\ UNCHANGED <<dcs, clusterHost, mounts>>
  BY DEF CreateResourcePool, Answered, InCluster
<1>2. DOMAIN pools' = DOMAIN pools \union {<<at.dc, at.cluster, at.pool>>} /\ at.pool \in Nat
  BY <1>1, Numbers DEF Put, ThisPool
<1>3. /\ FailureLeavesPrefix'
      /\ phase' # "close" => Frontier' /\ Config' = Config /\ ThisCluster' = ThisCluster
      /\ phase' = "close" => Frontier' /\ Here'
  BY <1>1, <1>2, InClusterOrder DEF InCluster
<1>4. ASSUME phase' = "vms" PROVE Here'
  <2>1. Config' = Config /\ ThisCluster' = ThisCluster
    BY <1>3, <1>4
  <2>2. HostsHere'
    <3>1. clusterHost[ThisCluster] = Fill(at.dc, at.cluster, Config.hosts)
      BY <1>1 DEF Progress, Here, HostsHere
    <3>2. Fill(at.dc, at.cluster, Config.hosts)' = Fill(at.dc, at.cluster, Config.hosts)
      BY <1>1, <2>1 DEF Fill
    <3>3. QED
      BY <1>1, <1>4, <2>1, <3>1, <3>2 DEF HostsHere
  <2>3. MountsHere'
    BY <1>1, <1>4, <2>1 DEF Progress, Here, MountsHere
  <2>4. \A p \in DOMAIN Config.pools : p < at.pool => <<at.dc, at.cluster, p>> \in DOMAIN pools
    BY <1>1 DEF Progress, Here, PoolsHere
  <2>5. \A p \in DOMAIN Config.pools : p \in Nat
    <3>1. at.dc \in DOMAIN Layout /\ at.cluster \in DOMAIN Clusters(at.dc) /\ flags \in Flags
      BY <1>1, HereInLayout, Numbers
    <3>2. ClusterShape(Config)
      BY <3>1, LayoutShape DEF Config
    <3>3. QED
      BY <3>2, CountedPos DEF ClusterShape
  <2>6. PoolsHere'
    BY <1>1, <1>2, <1>4, <2>1, <2>4, <2>5 DEF PoolsHere
  <2>7. QED
    BY <2>2, <2>3, <2>6 DEF Here
<1>5. QED
  BY <1>1, <1>3, <1>4

\* Every host of the cluster has its datastore when VMs are placed.
LEMMA AllAttached ==
    ASSUME StartupInv, Progress, phase = "vms"
    PROVE  /\ clusterHost[ThisCluster] # <<>>
           /\ \A i \in DOMAIN clusterHost[ThisCluster] : clusterHost[ThisCluster][i] \in mounts
           /\ FilteredInPlace = clusterHost[ThisCluster]
<1> DEFINE list == clusterHost[ThisCluster]
           n == Config.hosts
<1>1. list = Fill(at.dc, at.cluster, n) /\ \A i \in 1..n : <<at.dc, at.cluster, i>> \in mounts
  BY DEF Progress, Here, HostsHere, MountsHere
<1>2. n \in Nat \ {0}
  BY HereInLayout DEF InCluster
<1> HIDE DEF list, n
<1>3. list = [i \in 1..n |-> <<at.dc, at.cluster, i>>]
  BY <1>1 DEF Fill
<1>4. \A i \in 1..n : list[i] \in mounts
  BY <1>1, <1>3
<1>5. list \in Seq(mounts) /\ Len(list) = n /\ DOMAIN list = 1..n
  BY <1>2, <1>3, <1>4
<1>6. list # <<>>
  BY <1>2, <1>5
<1>7. Filter(list, mounts) = list
  BY <1>4, <1>5, FilterAll
<1>8. FilteredInPlace = list
  <2>1. Attached = list
    BY <1>7 DEF Attached, list
  <2>2. FilteredInPlace = [i \in DOMAIN list |-> IF i <= Len(list) THEN list[i] ELSE list[i]]
    BY <2>1 DEF FilteredInPlace, list
  <2>3. QED
    BY <1>5, <2>2
<1>9. QED
  BY <1>4, <1>5, <1>6, <1>8 DEF list

\* The VMs of a pool, created or not.
LEMMA VMOrder ==
    ASSUME StartupInv, Progress, StartupInv', createVMs \/ createNoVMs, flags' = flags
    PROVE  Frontier' /\ Here' /\ FailureLeavesPrefix'
<1>1. /\ phase = "vms" /\ InCluster /\ phase' = "pool" /\ at' = [at EXCEPT !.pool = @ + 1]
      /\ DOMAIN pools' = DOMAIN pools /\ UNCHANGED <<dcs, mounts>>
      /\ \/ clusterHost' = [clusterHost EXCEPT ![ThisCluster] = FilteredInPlace]
         \/ clusterHost' = clusterHost
  BY DEF createVMs, createNoVMs, InCluster, tree
<1>2. \A k \in DOMAIN clusterHost : clusterHost'[k] = clusterHost[k]
  BY <1>1, AllAttached
<1>3. DOMAIN clusterHost' = DOMAIN clusterHost /\ ThisCluster \in DOMAIN clusterHost
  BY <1>1, HereInLayout
<1>4. at'.dc = at.dc /\ at'.cluster = at.cluster /\ at'.pool = at.pool + 1 /\ at.pool \in Nat
  BY <1>1 DEF StartupInv, Standing, Place
<1>5. FailureLeavesPrefix' /\ Frontier' /\ Config' = Config /\ ThisCluster' = ThisCluster
  BY <1>1, <1>2, <1>3, <1>4, InClusterOrder DEF InCluster
<1>6. HostsHere'
  <2>1. clusterHost[ThisCluster] = Fill(at.dc, at.cluster, Config.hosts)
    BY <1>1 DEF Progress, Here, HostsHere
  <2>2. Fill(at.dc, at.cluster, Config.hosts)' = Fill(at.dc, at.cluster, Config.hosts)
    BY <1>4, <1>5 DEF Fill
  <2>3. QED
    BY <1>1, <1>2, <1>3, <1>5, <2>1, <2>2 DEF HostsHere
<1>7. MountsHere'
  BY <1>1, <1>4, <1>5 DEF Progress, Here, MountsHere
<1>8. PoolsHere'
  <2>1. \A p \in DOMAIN Config.pools : p <= at.pool => <<at.dc, at.cluster, p>> \in DOMAIN pools
    BY <1>1 DEF Progress, Here, PoolsHere
  <2>2. \A p \in DOMAIN Config.pools : p \in Nat
    <3>1. at.dc \in DOMAIN Layout /\ at.cluster \in DOMAIN Clusters(at.dc) /\ flags \in Flags
      BY <1>1, HereInLayout, Numbers
    <3>2. ClusterShape(Config)
      BY <3>1, LayoutShape DEF Config
    <3>3. QED
      BY <3>2, CountedPos DEF ClusterShape
  <2>3. QED
    BY <1>1, <1>4, <1>5, <2>1, <2>2 DEF PoolsHere
<1>9. QED
  BY <1>5, <1>6, <1>7, <1>8 DEF Here

\* Steps within a cluster that leave the inventory alone.
LEMMA WithinOrder ==
    ASSUME StartupInv, Progress, StartupInv', flags' = flags,
           RegisterHostProfile \/ HostsAdded \/ DatastoreShared \/ ResourcePool
    PROVE  Frontier' /\ Here' /\ FailureLeavesPrefix'
<1>1. /\ InCluster /\ UNCHANGED <<dcs, clusterHost, mounts, pools>>
      /\ InCluster' \/ phase' = "close"
  BY DEF RegisterHostProfile, HostsAdded, DatastoreShared, ResourcePool, Goto, Answered, InCluster, tree
<1>2. at'.dc = at.dc /\ at'.cluster = at.cluster
  BY DEF RegisterHostProfile, HostsAdded, DatastoreShared, ResourcePool, Goto, Answered,
         StartupInv, Standing, Place
<1>3. /\ FailureLeavesPrefix'
      /\ phase' # "close" => Frontier' /\ Config' = Config /\ ThisCluster' = ThisCluster
      /\ phase' = "close" => Frontier' /\ Here'
  BY <1>1, <1>2, InClusterOrder
<1>4. ThisCluster \in DOMAIN clusterHost /\ Config.hosts \in Nat \ {0} /\ at.host \in Nat \ {0}
  BY <1>1, HereInLayout, Numbers
<1>5. ASSUME NEW n, Config' = Config PROVE Fill(at.dc, at.cluster, n)' = Fill(at.dc, at.cluster, n)
  BY <1>2 DEF Fill
<1>6. CASE RegisterHostProfile
  <2>1. phase = "register" /\ phase' = "addHost" /\ at' = at /\ at.host <= Config.hosts
    BY <1>6 DEF RegisterHostProfile, Goto
  <2>2. Config' = Config /\ ThisCluster' = ThisCluster
    BY <1>3, <2>1
  <2>3. HostsHere'
    BY <1>1, <2>1, <2>2 DEF Progress, Here, HostsHere, Fill
  <2>4. QED
    BY <1>3, <2>1, <2>3 DEF Here, MountsHere, PoolsHere
<1>7. CASE HostsAdded
  <2>1. phase = "register" /\ phase' = "mount" /\ at'.host = 1 /\ at.host > Config.hosts
    BY <1>7 DEF HostsAdded, StartupInv, Standing, Place
  <2>2. Config' = Config /\ ThisCluster' = ThisCluster
    BY <1>3, <2>1
  <2>3. clusterHost[ThisCluster] = Fill(at.dc, at.cluster, at.host - 1) /\ at.host <= Config.hosts + 1
    BY <2>1 DEF Progress, Here, HostsHere
  <2>4. at.host - 1 = Config.hosts
    BY <1>4, <2>1, <2>3
  <2>5. clusterHost'[ThisCluster'] = Fill(at.dc, at.cluster, Config.hosts)'
    BY <1>1, <1>2, <2>2, <2>3, <2>4 DEF Fill
  <2>6. HostsHere'
    BY <2>1, <2>5 DEF HostsHere
  <2>7. MountsHere'
    BY <2>1 DEF MountsHere
  <2>8. QED
    BY <1>3, <2>1, <2>6, <2>7 DEF Here, PoolsHere
<1>8. CASE DatastoreShared
  <2>1. phase = "mount" /\ phase' = "rootPool" /\ at' = at /\ at.host > Config.hosts
    BY <1>8 DEF DatastoreShared, Goto
  <2>2. Config' = Config /\ ThisCluster' = ThisCluster
    BY <1>3, <2>1
  <2>3. HostsHere'
    BY <1>1, <2>1, <2>2 DEF Progress, Here, HostsHere, Fill
  <2>4. \A i \in 1..(at.host - 1) : <<at.dc, at.cluster, i>> \in mounts
    BY <2>1 DEF Progress, Here, MountsHere
  <2>5. \A i \in 1..Config.hosts : i \in 1..(at.host - 1)
    BY <1>4, <2>1
  <2>6. MountsHere'
    BY <1>1, <2>1, <2>2, <2>4, <2>5 DEF MountsHere
  <2>7. QED
    BY <1>3, <2>1, <2>3, <2>6 DEF Here, PoolsHere
<1>9. CASE ResourcePool
  <2>1. /\ phase = "rootPool"
        /\ (phase' = "pool" /\ at'.pool = 1) \/ phase' = "close"
    BY <1>9 DEF ResourcePool, Answered, StartupInv, Standing, Place
  <2>2. CASE phase' = "close"
    BY <1>3, <2>2
  <2>3. CASE phase' = "pool" /\ at'.pool = 1
    <3>1. Config' = Config /\ ThisCluster' = ThisCluster
      BY <1>3, <2>3
    <3>2. HostsHere'
      BY <1>1, <1>2, <2>1, <2>3, <3>1 DEF Progress, Here, HostsHere, Fill
    <3>3. MountsHere'
      BY <1>1, <1>2, <2>1, <2>3, <3>1 DEF Progress, Here, MountsHere
    <3>4. \A p \in DOMAIN Config.pools : p \in Nat \ {0}
      <4>1. at.dc \in DOMAIN Layout /\ at.cluster \in DOMAIN Clusters(at.dc) /\ flags \in Flags
        BY <1>1, HereInLayout, Numbers
      <4>2. ClusterShape(Config)
        BY <4>1, LayoutShape DEF Config
      <4>3. QED
        BY <4>2, CountedPos DEF ClusterShape
    <3>5. PoolsHere'
      BY <2>3, <3>1, <3>4 DEF PoolsHere
    <3>6. QED
      BY <1>3, <2>3, <3>2, <3>3, <3>5 DEF Here
  <2>4. QED
    BY <2>1, <2>2, <2>3
<1>10. QED
  BY <1>6, <1>7, <1>8, <1>9

\* At the end of the loop over its pools the cluster is whole.
LEMMA ClusterBuiltOrder ==
    ASSUME StartupInv, Progress, ClusterBuilt, flags' = flags
    PROVE  Frontier' /\ Here' /\ FailureLeavesPrefix'
<1>1. /\ phase = "pool" /\ InCluster /\ phase' = "cluster" /\ at.pool \notin DOMAIN Config.pools
      /\ at' = [at EXCEPT !.cluster = @ + 1]
      /\ UNCHANGED <<dcs, clusterHost, mounts, pools>>
  BY DEF ClusterBuilt, InCluster, tree
<1>2. /\ at.dc \in dcs /\ at.dc \in DOMAIN Layout /\ at.cluster \in DOMAIN Clusters(at.dc)
      /\ ThisCluster \in DOMAIN clusterHost /\ Config.hosts \in Nat \ {0} /\ flags \in Flags
      /\ at.dc \in Nat /\ at.cluster \in Nat /\ at.pool \in Nat \ {0}
  BY <1>1, HereInLayout, Numbers
<1>3. Built(at.dc, at.cluster)
  <2>1. clusterHost[ThisCluster] = Fill(at.dc, at.cluster, Config.hosts)
    BY <1>1 DEF Progress, Here, HostsHere
  <2>2. \A i \in 1..Config.hosts :
            <<at.dc, at.cluster, i>> \in mounts /\ clusterHost[ThisCluster][i] = <<at.dc, at.cluster, i>>
    BY <1>1, <2>1 DEF Progress, Here, MountsHere, Fill
  <2>3. Counted(DOMAIN Config.pools)
    BY <1>2, LayoutShape DEF Config, ClusterShape
  <2>4. \A p \in DOMAIN Config.pools : p < at.pool
    BY <1>1, <1>2, <2>3, CountedEnd
  <2>5. \A p \in DOMAIN Config.pools : <<at.dc, at.cluster, p>> \in DOMAIN pools
    BY <1>1, <2>4 DEF Progress, Here, PoolsHere
  <2>6. QED
    BY <1>2, <2>2, <2>5 DEF Built, Config, ThisCluster
<1>4. PICK d0 \in Nat, c0 \in Nat : d0 = at.dc /\ c0 = at.cluster
  BY <1>2
<1>5. PrefixOf(d0, c0)
  BY <1>1, <1>4 DEF Progress, Frontier
<1>6. PrefixOf(d0, c0 + 1)
  <2>1. \A d \in DOMAIN Layout : \A c \in DOMAIN Clusters(d) : c \in Nat
    BY Numbers
  <2>2. \A k \in DOMAIN clusterHost : k[2] \in Nat
    BY Numbers
  <2>3. ASSUME NEW d \in DOMAIN Layout, NEW c \in DOMAIN Clusters(d), d < d0 \/ (d = d0 /\ c < c0 + 1)
        PROVE  Built(d, c)
    <3>1. (d < d0 \/ (d = d0 /\ c < c0)) \/ (d = at.dc /\ c = at.cluster)
      BY <1>4, <2>1, <2>3
    <3>2. QED
      BY <1>3, <1>5, <3>1 DEF PrefixOf
  <2>4. QED
    BY <1>5, <2>2, <2>3 DEF PrefixOf
<1>7. PrefixOf(d0, c0 + 1)' /\ FailureLeavesPrefix'
  BY <1>1, <1>6, PrefixSame DEF Progress
<1>8. at'.dc = d0 /\ at'.cluster = c0 + 1
  BY <1>1, <1>4 DEF StartupInv, Standing, Place
<1>9. Frontier'
  BY <1>1, <1>7, <1>8 DEF Frontier, InCluster
<1>10. Here'
  BY <1>1 DEF Here, HostsHere, MountsHere, PoolsHere
<1>11. QED
  BY <1>7, <1>9, <1>10

\* ... and at the end of the loop over its clusters the datacenter is.
LEMMA DatacenterBuiltOrder ==
    ASSUME StartupInv, Progress, DatacenterBuilt, flags' = flags
    PROVE  Frontier' /\ Here' /\ FailureLeavesPrefix'
<1>1. /\ phase = "cluster" /\ phase' = "datacenter" /\ at.cluster \notin DOMAIN Clusters(at.dc)
      /\ at' = [at EXCEPT !.dc = @ + 1]
      /\ UNCHANGED <<dcs, clusterHost, mounts, pools>>
  BY DEF DatacenterBuilt, tree
<1>2. at.dc \in dcs /\ at.dc \in DOMAIN Layout /\ flags \in Flags
      /\ at.dc \in Nat \ {0} /\ at.cluster \in Nat \ {0}
  BY <1>1, Numbers DEF StartupInv, Standing, Within, Building, TreeOK
<1>3. \A c \in DOMAIN Clusters(at.dc) : c < at.cluster
  BY <1>1, <1>2, LayoutShape, CountedEnd
<1>4. PICK d0 \in Nat, c0 \in Nat : d0 = at.dc /\ c0 = at.cluster
  BY <1>2
<1>5. PrefixOf(d0, c0)
  BY <1>1, <1>4 DEF Progress, Frontier
<1>6. PrefixOf(d0 + 1, 0)
  <2>1. (\A d \in DOMAIN Layout : d \in Nat) /\ \A k \in DOMAIN clusterHost : k[1] \in Nat
    BY Numbers
  <2>2. ASSUME NEW d \in DOMAIN Layout, d < d0 + 1 PROVE d \in dcs
    <3>1. d < d0 \/ d = at.dc
      BY <1>4, <2>1, <2>2
    <3>2. QED
      BY <1>2, <1>5, <3>1 DEF PrefixOf
  <2>3. ASSUME NEW d \in DOMAIN Layout, NEW c \in DOMAIN Clusters(d), d < d0 + 1 \/ (d = d0 + 1 /\ c < 0)
        PROVE  Built(d, c)
    <3>1. c \in Nat
      BY Numbers
    <3>2. d < d0 \/ (d = d0 /\ c < c0)
      BY <1>3, <1>4, <2>1, <2>3, <3>1
    <3>3. QED
      BY <1>5, <3>2 DEF PrefixOf
  <2>4. \A k \in DOMAIN clusterHost : k[1] < d0 + 1
    BY <1>5, <2>1 DEF PrefixOf
  <2>5. QED
    BY <2>2, <2>3, <2>4 DEF PrefixOf
<1>7. PrefixOf(d0 + 1, 0)' /\ FailureLeavesPrefix'
  BY <1>1, <1>6, PrefixSame DEF Progress
<1>8. at'.dc = d0 + 1
  BY <1>1, <1>4 DEF StartupInv, Standing, Place
<1>9. Frontier'
  BY <1>1, <1>7, <1>8 DEF Frontier, InCluster
<1>10. Here'
  BY <1>1 DEF Here, HostsHere, MountsHere, PoolsHere
<1>11. QED
  BY <1>7, <1>9, <1>10

\* A step that leaves the builder where it is, or after which there is none.
LEMMA StandStillOrder ==
    ASSUME Progress, flags' = flags, UNCHANGED <<dcs, clusterHost, mounts, pools>>,
           \/ UNCHANGED <<phase, at>>
           \/ /\ phase \in {"start", "newBuilder"} /\ at' = at
              /\ phase' \in {"newBuilder", "datacenter", "connect", "exit"}
           \/ phase' \in {"close", "connect", "ready", "exit"}
    PROVE  Frontier' /\ Here' /\ FailureLeavesPrefix'
<1>1. FailureLeavesPrefix'
  BY PrefixSame DEF Progress
<1>2. \A d0, c0 : PrefixOf(d0, c0)' = PrefixOf(d0, c0)
  BY PrefixSame
<1>3. CASE UNCHANGED <<phase, at>>
  <2>1. PICK d0, c0 : d0 = at.dc /\ c0 = at.cluster
    OBVIOUS
  <2>2. at'.dc = d0 /\ at'.cluster = c0 /\ PrefixOf(d0, 0)' = PrefixOf(d0, 0)
        /\ PrefixOf(d0, c0)' = PrefixOf(d0, c0)
    BY <1>2, <1>3, <2>1
  <2>3. Frontier'
    BY <1>3, <2>1, <2>2 DEF Progress, Frontier, InCluster
  <2>4. Config' = Config /\ ThisCluster' = ThisCluster
    BY <1>3, SameLayout DEF Config, ThisCluster
  <2>5. Here'
    BY <1>3, <2>4 DEF Progress, Here, HostsHere, MountsHere, PoolsHere, Fill
  <2>6. QED
    BY <1>1, <2>3, <2>5
<1>4. CASE /\ phase \in {"start", "newBuilder"} /\ at' = at
           /\ phase' \in {"newBuilder", "datacenter", "connect", "exit"}
  <2>1. PICK d0 : d0 = at.dc
    OBVIOUS
  <2>2. PrefixOf(d0, 0) /\ at'.dc = d0
    BY <1>4, <2>1 DEF Progress, Frontier
  <2>3. PrefixOf(d0, 0)'
    BY <1>2, <2>2
  <2>4. Frontier'
    BY <1>4, <2>2, <2>3 DEF Frontier, InCluster
  <2>5. Here'
    BY <1>4 DEF Here, HostsHere, MountsHere, PoolsHere
  <2>6. QED
    BY <1>1, <2>4, <2>5
<1>5. CASE phase' \in {"close", "connect", "ready", "exit"}
  BY <1>1, <1>5 DEF Frontier, InCluster, Here, HostsHere, MountsHere, PoolsHere
<1>6. QED
  BY <1>3, <1>4, <1>5

LEMMA StillOrder ==
    ASSUME Progress, flags' = flags,
           \/ BuildComplete \/ CallFails \/ MainStep \/ Deadline \/ Fatal \/ Shutdown
           \/ UNCHANGED vars
    PROVE  Frontier' /\ Here' /\ FailureLeavesPrefix'
<1>1. UNCHANGED <<dcs, clusterHost, mounts, pools>>
  BY DEF BuildComplete, CallFails, MainStep, Serve, NewBuilder, NoBuilder, Close, ConnectManager,
         Deadline, Fatal, Shutdown, vars, tree
<1>2. \/ UNCHANGED <<phase, at>>
      \/ /\ phase \in {"start", "newBuilder"} /\ at' = at
         /\ phase' \in {"newBuilder", "datacenter", "connect", "exit"}
      \/ phase' \in {"close", "connect", "ready", "exit"}
  BY DEF BuildComplete, CallFails, MainStep, Serve, NewBuilder, NoBuilder, Close, ConnectManager,
         Deadline, Fatal, Shutdown, Goto, vars, main
<1>3. QED
  BY <1>1, <1>2, StandStillOrder

\* The builder stops at the end of its layout, with all of it built.
LEMMA CompleteOrder ==
    ASSUME StartupInv, Progress, BuildComplete, flags' = flags
    PROVE  CompleteMeansBuilt'
<1>1. /\ phase = "datacenter" /\ at.dc \notin DOMAIN Layout
      /\ UNCHANGED <<dcs, clusterHost, mounts, pools>>
  BY DEF BuildComplete, tree
<1>2. PrefixOf(at.dc, 0)
  BY <1>1 DEF Progress, Frontier
<1>3. \A d \in DOMAIN Layout : d < at.dc
  BY <1>1, Numbers, CountedEnd
<1>4. \A d \in DOMAIN Layout : d \in dcs /\ \A c \in DOMAIN Clusters(d) : Built(d, c)
  BY <1>2, <1>3 DEF PrefixOf
<1>5. Layout' = Layout /\ \A d : Clusters(d)' = Clusters(d)
  BY SameLayout
<1>6. \A d, c : Built(d, c)' = Built(d, c)
  BY <1>1, <1>5 DEF Built
<1>7. QED
  BY <1>1, <1>4, <1>5, <1>6 DEF CompleteMeansBuilt

\* The outcome is decided once, when the builder returns.
LEMMA OutcomeOrder ==
    ASSUME StartupInv, Progress, Next
    PROVE  Undecided' /\ CompleteMeansBuilt'
<1>1. flags' = flags
  BY ControlStep
<1>2. CASE BuildStep /\ ~BuildComplete
  <2>1. Building
    BY <1>2 DEF BuildStep, CreateDatacenter, CreateCluster, RegisterHostProfile, addHostToCluster,
         HostsAdded, createSharedDatastore, DatastoreShared, ResourcePool, CreateResourcePool,
         createVMs, createNoVMs, ClusterBuilt, DatacenterBuilt, CallFails, Calling, Building
  <2>2. outcome = "none"
    BY <2>1 DEF Progress, Undecided
  <2>3. outcome' = outcome \/ (outcome' = "failed" /\ phase' = "close")
    BY <1>2 DEF BuildStep, CreateDatacenter, CreateCluster, RegisterHostProfile, addHostToCluster,
         HostsAdded, createSharedDatastore, DatastoreShared, ResourcePool, CreateResourcePool,
         createVMs, createNoVMs, ClusterBuilt, DatacenterBuilt, CallFails, Answered, Goto
  <2>4. QED
    BY <2>2, <2>3 DEF Undecided, CompleteMeansBuilt, Building
<1>3. CASE BuildComplete
  <2>1. Undecided'
    BY <1>3 DEF BuildComplete, Undecided, Building
  <2>2. QED
    BY <1>1, <1>3, <2>1, CompleteOrder
<1>4. CASE MainStep \/ Deadline \/ Fatal \/ Shutdown
  <2>1. UNCHANGED <<dcs, clusterHost, mounts, pools>>
    BY <1>4 DEF MainStep, Serve, NewBuilder, NoBuilder, Close, ConnectManager, Deadline, Fatal,
         Shutdown, tree
  <2>2. outcome' = outcome \/ (outcome' = "failed" /\ phase' = "connect")
    BY <1>4 DEF MainStep, Serve, NewBuilder, NoBuilder, Close, ConnectManager, Deadline, Fatal,
         Shutdown, Goto
  <2>3. CompleteMeansBuilt'
    <3>1. CASE outcome' = outcome
      BY <1>1, <2>1, <3>1, PrefixSame DEF Progress
    <3>2. CASE outcome' = "failed"
      BY <3>2 DEF CompleteMeansBuilt
    <3>3. QED
      BY <2>2, <3>1, <3>2
  <2>4. Undecided'
    BY <1>4 DEF MainStep, Serve, NewBuilder, NoBuilder, Close, ConnectManager, Deadline, Fatal,
         Shutdown, Goto, Progress, Undecided, Building
  <2>5. QED
    BY <2>3, <2>4
<1>5. QED
  BY <1>2, <1>3, <1>4 DEF Next

LEMMA OrderStep == OrderInv /\ [Next]_vars => OrderInv'
<1> SUFFICES ASSUME OrderInv, [Next]_vars PROVE OrderInv'
  OBVIOUS
<1>1. StartupInv /\ Progress /\ StartupInv'
  BY StartupStep DEF OrderInv
<1>2. CASE UNCHANGED vars
  <2>1. flags' = flags /\ outcome' = outcome /\ phase' = phase
        /\ UNCHANGED <<dcs, clusterHost, mounts, pools>>
    BY <1>2 DEF vars, main, tree
  <2>2. Frontier' /\ Here' /\ FailureLeavesPrefix'
    BY <1>1, <1>2, <2>1, StillOrder
  <2>3. Undecided' /\ CompleteMeansBuilt'
    BY <1>1, <2>1, PrefixSame DEF Progress, Undecided, Building
  <2>4. QED
    BY <1>1, <2>2, <2>3 DEF OrderInv, Progress
<1>3. CASE Next
  <2>1. flags' = flags
    BY <1>1, <1>3, ControlStep
  <2>2. Undecided' /\ CompleteMeansBuilt'
    BY <1>1, <1>3, OutcomeOrder
  <2>3. Frontier' /\ Here' /\ FailureLeavesPrefix'
    <3>1. CASE CreateDatacenter \/ CreateCluster \/ addHostToCluster \/ createSharedDatastore
      BY <1>1, <2>1, <3>1, DatacenterOrder, ClusterOrder, AddHostOrder, MountOrder
    <3>2. CASE CreateResourcePool \/ createVMs \/ createNoVMs
      BY <1>1, <2>1, <3>2, PoolOrder, VMOrder
    <3>3. CASE RegisterHostProfile \/ HostsAdded \/ DatastoreShared \/ ResourcePool
      BY <1>1, <2>1, <3>3, WithinOrder
    <3>4. CASE ClusterBuilt \/ DatacenterBuilt
      BY <1>1, <2>1, <3>4, ClusterBuiltOrder, DatacenterBuiltOrder
    <3>5. CASE BuildComplete \/ CallFails \/ MainStep \/ Deadline \/ Fatal \/ Shutdown
      BY <1>1, <2>1, <3>5, StillOrder
    <3>6. QED
      BY <1>3, <3>1, <3>2, <3>3, <3>4, <3>5 DEF Next, BuildStep
  <2>4. QED
    BY <1>1, <2>2, <2>3 DEF OrderInv, Progress
<1>4. QED
  BY <1>2, <1>3

LEMMA StartupOrder == Spec => []OrderInv
<1>1. Init => OrderInv
  BY StartupInit, ProgressInit DEF OrderInv
<1>2. QED
  BY <1>1, OrderStep, PTL DEF Spec

\* Whatever calls failed before, VMs are only placed when there is a host and
\* every host of the cluster has the datastore: hostsWithDatastore has something
\* to choose from, and its filter leaves cluster.Host as it is.
THEOREM StartupPlacementSound == Spec => []PlacementSound
<1>1. OrderInv => PlacementSound
  BY AllAttached DEF OrderInv, PlacementSound
<1>2. QED
  BY <1>1, StartupOrder, PTL

\* For any flags, a build that says it is complete has built its whole layout.
THEOREM StartupCompleteMeansBuilt == Spec => []CompleteMeansBuilt
<1>1. OrderInv => CompleteMeansBuilt
  BY DEF OrderInv, Progress
<1>2. QED
  BY <1>1, StartupOrder, PTL

\* For any flags and wherever it fails, a build leaves a prefix of its layout.
THEOREM StartupFailureLeavesPrefix == Spec => []FailureLeavesPrefix
<1>1. OrderInv => FailureLeavesPrefix
  BY DEF OrderInv, Progress
<1>2. QED
  BY <1>1, StartupOrder, PTL

-----------------------------------------------------------------------------
(* The builder implements InventoryBuild.  A cluster is made by many calls *)
(* and becomes whole with one of them: its last mount or, if it has any,   *)
(* its last pool.  That no call makes another whole, or takes from one     *)
(* that is, rests on the order of the build and on a cluster being new     *)
(* when it is created: no host of it has a datastore before the loop that  *)
(* mounts it.                                                              *)

Fresh ==
    /\ phase = "cluster" => ThisCluster \notin DOMAIN clusterHost
    /\ phase \in {"register", "addHost"} => \A i : <<at.dc, at.cluster, i>> \notin mounts

BuildInv == OrderInv /\ Fresh

LEMMA NoMountYet ==
    ASSUME StartupInv, ThisCluster \notin DOMAIN clusterHost
    PROVE  \A i : <<at.dc, at.cluster, i>> \notin mounts
BY DEF StartupInv, TreeOK, ThisCluster

LEMMA FreshDatacenter ==
    ASSUME BuildInv, CreateDatacenter
    PROVE  Fresh'
<1>1. /\ phase = "datacenter" /\ clusterHost' = clusterHost
      /\ \/ phase' = "cluster" /\ at' = [at EXCEPT !.cluster = 1]
         \/ phase' = "close"
  BY DEF CreateDatacenter, Answered
<1>2. \A k \in DOMAIN clusterHost : k[1] \in Nat /\ k[2] \in Nat \ {0}
  BY Numbers DEF BuildInv, OrderInv
<1>3. PICK d0 \in Nat : d0 = at.dc
  BY Numbers DEF BuildInv, OrderInv
<1>4. \A k \in DOMAIN clusterHost : k[1] < d0 \/ (k[1] = d0 /\ k[2] <= 0)
  BY <1>1, <1>3 DEF BuildInv, OrderInv, Progress, Frontier, PrefixOf
<1>5. <<d0, 1>> \notin DOMAIN clusterHost
  BY <1>2, <1>4
<1>6. phase' = "cluster" => at'.dc = d0 /\ at'.cluster = 1
  BY <1>1, <1>3 DEF BuildInv, OrderInv, StartupInv, Standing, Place
<1>7. QED
  BY <1>1, <1>5, <1>6 DEF Fresh, ThisCluster

LEMMA FreshNext ==
    ASSUME BuildInv, ClusterBuilt
    PROVE  Fresh'
<1>1. /\ phase = "pool" /\ InCluster /\ phase' = "cluster"
      /\ at' = [at EXCEPT !.cluster = @ + 1] /\ clusterHost' = clusterHost
  BY DEF ClusterBuilt, InCluster, tree
<1>2. \A k \in DOMAIN clusterHost : k[1] \in Nat /\ k[2] \in Nat
  BY Numbers DEF BuildInv, OrderInv
<1>3. PICK d0 \in Nat, c0 \in Nat : d0 = at.dc /\ c0 = at.cluster
  BY Numbers DEF BuildInv, OrderInv
<1>4. \A k \in DOMAIN clusterHost : k[1] < d0 \/ (k[1] = d0 /\ k[2] <= c0)
  BY <1>1, <1>3 DEF BuildInv, OrderInv, Progress, Frontier, PrefixOf
<1>5. <<d0, c0 + 1>> \notin DOMAIN clusterHost
  BY <1>2, <1>4
<1>6. at'.dc = d0 /\ at'.cluster = c0 + 1
  BY <1>1, <1>3 DEF BuildInv, OrderInv, StartupInv, Standing, Place
<1>7. QED
  BY <1>1, <1>5, <1>6 DEF Fresh, ThisCluster

LEMMA FreshCluster ==
    ASSUME BuildInv, CreateCluster
    PROVE  Fresh'
<1>1. /\ phase = "cluster" /\ mounts' = mounts
      /\ \/ phase' = "register" /\ at' = [at EXCEPT !.host = 1]
         \/ phase' = "close"
  BY DEF CreateCluster, Answered
<1>2. \A i : <<at.dc, at.cluster, i>> \notin mounts
  BY <1>1, NoMountYet DEF BuildInv, OrderInv, Fresh
<1>3. phase' = "register" => at'.dc = at.dc /\ at'.cluster = at.cluster
  BY <1>1 DEF BuildInv, OrderInv, StartupInv, Standing, Place
<1>4. QED
  BY <1>1, <1>2, <1>3 DEF Fresh

LEMMA FreshStep == BuildInv /\ [Next]_vars => Fresh'
<1> SUFFICES ASSUME BuildInv, [Next]_vars PROVE Fresh'
  OBVIOUS
<1>1. CASE CreateDatacenter \/ CreateCluster \/ ClusterBuilt
  BY <1>1, FreshDatacenter, FreshCluster, FreshNext
<1>2. CASE RegisterHostProfile \/ addHostToCluster
  <2>1. /\ phase \in {"register", "addHost"} /\ phase' \in {"register", "addHost", "close"}
        /\ mounts' = mounts
        /\ at' = at \/ at' = [at EXCEPT !.host = @ + 1]
    BY <1>2 DEF RegisterHostProfile, addHostToCluster, Answered, Goto, tree
  <2>2. at'.dc = at.dc /\ at'.cluster = at.cluster
    BY <2>1 DEF BuildInv, OrderInv, StartupInv, Standing, Place
  <2>3. QED
    BY <2>1, <2>2 DEF BuildInv, Fresh
<1>3. CASE Deadline \/ UNCHANGED vars
  <2>1. UNCHANGED <<phase, at, clusterHost, mounts>>
    BY <1>3 DEF Deadline, vars, main, tree
  <2>2. QED
    BY <2>1 DEF BuildInv, Fresh, ThisCluster
<1>4. CASE \/ HostsAdded \/ createSharedDatastore \/ DatastoreShared \/ ResourcePool
           \/ CreateResourcePool \/ createVMs \/ createNoVMs \/ DatacenterBuilt
           \/ BuildComplete \/ CallFails \/ MainStep \/ Fatal \/ Shutdown
  <2>1. phase' \notin {"cluster", "register", "addHost"}
    BY <1>4 DEF HostsAdded, createSharedDatastore, DatastoreShared, ResourcePool,
         CreateResourcePool, createVMs, createNoVMs, DatacenterBuilt, BuildComplete, CallFails,
         MainStep, Serve, NewBuilder, NoBuilder, Close, ConnectManager, Fatal, Shutdown,
         Answered, Goto
  <2>2. QED
    BY <2>1 DEF Fresh
<1>5. QED
  BY <1>1, <1>2, <1>3, <1>4 DEF Next, BuildStep

LEMMA StartupBuildInv == Spec => []BuildInv
<1>1. Init => Fresh
  BY DEF Init, Fresh
<1>2. Fresh /\ OrderInv /\ [Next]_vars => Fresh'
  BY FreshStep DEF BuildInv
<1>3. Spec => []Fresh
  BY <1>1, <1>2, StartupOrder, PTL DEF Spec
<1>4. QED
  BY <1>3, StartupOrder, PTL DEF BuildInv

\* The clusters of the layout that are whole.
Whole == {k \in Everywhere : Built(k[1], k[2])}

LEMMA EverywherePairs ==
    ASSUME flags \in Flags
    PROVE  /\ Everywhere \subseteq Nat \X Nat
           /\ \A d \in DOMAIN Layout : \A c \in DOMAIN Clusters(d) : <<d, c>> \in Everywhere
           /\ \A k \in Everywhere : k = <<k[1], k[2]>> /\ k[1] \in DOMAIN Layout
                                    /\ k[2] \in DOMAIN Clusters(k[1])
<1>1. /\ \A d \in DOMAIN Layout : d \in Nat
      /\ \A d \in DOMAIN Layout : \A c \in DOMAIN Clusters(d) : c \in Nat
  BY LayoutShape, CountedPos
<1>2. \A k : k \in Everywhere <=> \E d \in DOMAIN Layout : k \in {d} \X (DOMAIN Clusters(d))
  BY DEF Everywhere
<1>3. QED
  BY <1>1, <1>2

LEMMA SameEverywhere ==
    ASSUME flags' = flags
    PROVE  Everywhere' = Everywhere
BY SameLayout DEF Everywhere

\* What is whole depends on the datacenters, lists, mounts and pools alone.
LEMMA WholeSame ==
    ASSUME flags' = flags, UNCHANGED <<dcs, clusterHost, mounts, pools>>
    PROVE  Whole' = Whole
<1>1. Layout' = Layout /\ \A d : Clusters(d)' = Clusters(d)
  BY SameLayout
<1>2. \A d, c : Built(d, c)' = Built(d, c)
  BY <1>1 DEF Built
<1>3. QED
  BY <1>2, SameEverywhere DEF Whole

\* A new datacenter has no cluster.
LEMMA WholeDatacenter ==
    ASSUME BuildInv, CreateDatacenter, flags' = flags
    PROVE  Whole' = Whole
<1>1. dcs' = dcs \union {at.dc} /\ UNCHANGED <<clusterHost, mounts, pools>>
  BY DEF CreateDatacenter
<1>2. \A k \in DOMAIN clusterHost : k[1] \in dcs
  BY DEF BuildInv, OrderInv, StartupInv, TreeOK
<1>3. Layout' = Layout /\ \A d : Clusters(d)' = Clusters(d)
  BY SameLayout
<1>4. ASSUME NEW d, NEW c PROVE Built(d, c)' <=> Built(d, c)
  <2>1. <<d, c>> \in DOMAIN clusterHost => d \in dcs
    BY <1>2
  <2>2. QED
    BY <1>1, <1>3, <2>1 DEF Built
<1>5. QED
  BY <1>4, SameEverywhere DEF Whole

\* A new cluster is not whole, and was not there.
LEMMA WholeCluster ==
    ASSUME BuildInv, CreateCluster, flags' = flags
    PROVE  Whole' = Whole
<1>1. /\ phase = "cluster" /\ at.cluster \in DOMAIN Clusters(at.dc)
      /\ clusterHost' = Put(clusterHost, ThisCluster, <<>>)
      /\ UNCHANGED <<dcs, mounts, pools>>
  BY DEF CreateCluster
<1>2. flags \in Flags
  BY Numbers DEF BuildInv, OrderInv
<1>3. \A i : <<at.dc, at.cluster, i>> \notin mounts
  BY <1>1, NoMountYet DEF BuildInv, OrderInv, Fresh
<1>4. PICK d0, c0 : d0 = at.dc /\ c0 = at.cluster
  OBVIOUS
<1>5. Layout' = Layout /\ \A d : Clusters(d)' = Clusters(d)
  BY SameLayout
<1>6. ASSUME NEW k \in Everywhere PROVE Built(k[1], k[2])' <=> Built(k[1], k[2])
  <2>1. k = <<k[1], k[2]>> /\ k[1] \in DOMAIN Layout /\ k[2] \in DOMAIN Clusters(k[1])
    BY <1>2, EverywherePairs
  <2>2. CASE k = <<d0, c0>>
    <3>1. 1 \in 1..Clusters(k[1])[k[2]].hosts
      BY <1>2, <2>1, LayoutHosts
    <3>2. <<k[1], k[2], 1>> \notin mounts /\ mounts' = mounts
      BY <1>1, <1>3, <1>4, <2>2
    <3>3. ~Built(k[1], k[2]) /\ ~Built(k[1], k[2])'
      BY <1>5, <3>1, <3>2 DEF Built
    <3>4. QED
      BY <3>3
  <2>3. CASE k # <<d0, c0>>
    <3>1. k \in DOMAIN clusterHost' <=> k \in DOMAIN clusterHost
      BY <1>1, <1>4, <2>3 DEF Put, ThisCluster
    <3>2. k \in DOMAIN clusterHost => clusterHost'[k] = clusterHost[k]
      BY <1>1, <1>4, <2>3 DEF Put, ThisCluster
    <3>3. QED
      BY <1>1, <1>5, <2>1, <3>1, <3>2 DEF Built
  <2>4. QED
    BY <2>2, <2>3
<1>7. QED
  BY <1>6, SameEverywhere DEF Whole

\* Hosts are added before any of them has the datastore.
LEMMA WholeHost ==
    ASSUME BuildInv, addHostToCluster, flags' = flags
    PROVE  Whole' = Whole
<1>1. /\ phase = "addHost" /\ InCluster
      /\ clusterHost' = [clusterHost EXCEPT ![ThisCluster] = Append(clusterHost[ThisCluster], ThisHost)]
      /\ UNCHANGED <<dcs, mounts, pools>>
  BY DEF addHostToCluster, InCluster
<1>2. flags \in Flags
  BY Numbers DEF BuildInv, OrderInv
<1>3. \A i : <<at.dc, at.cluster, i>> \notin mounts
  BY <1>1 DEF BuildInv, Fresh
<1>4. PICK d0, c0 : d0 = at.dc /\ c0 = at.cluster
  OBVIOUS
<1>5. Layout' = Layout /\ \A d : Clusters(d)' = Clusters(d)
  BY SameLayout
<1>6. ASSUME NEW k \in Everywhere PROVE Built(k[1], k[2])' <=> Built(k[1], k[2])
  <2>1. k = <<k[1], k[2]>> /\ k[1] \in DOMAIN Layout /\ k[2] \in DOMAIN Clusters(k[1])
    BY <1>2, EverywherePairs
  <2>2. CASE k = <<d0, c0>>
    <3>1. 1 \in 1..Clusters(k[1])[k[2]].hosts
      BY <1>2, <2>1, LayoutHosts
    <3>2. <<k[1], k[2], 1>> \notin mounts /\ mounts' = mounts
      BY <1>1, <1>3, <1>4, <2>2
    <3>3. ~Built(k[1], k[2]) /\ ~Built(k[1], k[2])'
      BY <1>5, <3>1, <3>2 DEF Built
    <3>4. QED
      BY <3>3
  <2>3. CASE k # <<d0, c0>>
    <3>1. k \in DOMAIN clusterHost' <=> k \in DOMAIN clusterHost
      BY <1>1
    <3>2. k \in DOMAIN clusterHost => clusterHost'[k] = clusterHost[k]
      BY <1>1, <1>4, <2>3 DEF ThisCluster
    <3>3. QED
      BY <1>1, <1>5, <2>1, <3>1, <3>2 DEF Built
  <2>4. QED
    BY <2>2, <2>3
<1>7. QED
  BY <1>6, SameEverywhere DEF Whole

\* Where every host is attached, the filter in place changes no list.
LEMMA WholeVMs ==
    ASSUME BuildInv, createVMs, flags' = flags
    PROVE  Whole' = Whole
<1>1. /\ phase = "vms" /\ InCluster /\ DOMAIN pools' = DOMAIN pools /\ UNCHANGED <<dcs, mounts>>
      /\ clusterHost' = [clusterHost EXCEPT ![ThisCluster] = FilteredInPlace]
  BY DEF createVMs, InCluster
<1>2. /\ DOMAIN clusterHost' = DOMAIN clusterHost
      /\ \A k \in DOMAIN clusterHost : clusterHost'[k] = clusterHost[k]
  BY <1>1, AllAttached DEF BuildInv, OrderInv
<1>3. Layout' = Layout /\ \A d : Clusters(d)' = Clusters(d)
  BY SameLayout
<1>4. \A d, c : Built(d, c)' <=> Built(d, c)
  BY <1>1, <1>2, <1>3 DEF Built
<1>5. QED
  BY <1>4, SameEverywhere DEF Whole

\* The last mount or the last pool may make the cluster that the builder is at
\* whole; all before it are, and the others are left alone.
LEMMA WholeGrows ==
    ASSUME BuildInv, createSharedDatastore \/ CreateResourcePool, flags' = flags
    PROVE  \/ Whole' = Whole
           \/ /\ ThisCluster \in Everywhere \ Whole /\ Whole' = Whole \union {ThisCluster}
              /\ {j \in Everywhere : Build!Before(j, ThisCluster)} \subseteq Whole
<1>1. /\ phase \in {"mount", "pool"} /\ InCluster /\ UNCHANGED <<dcs, clusterHost>>
      /\ \/ mounts' = mounts \union {ThisHost} /\ pools' = pools
         \/ mounts' = mounts /\ DOMAIN pools' = DOMAIN pools \union {ThisPool}
  BY DEF createSharedDatastore, CreateResourcePool, InCluster, Put
<1>2. PICK d0, c0 : d0 = at.dc /\ c0 = at.cluster
  OBVIOUS
<1>3. /\ flags \in Flags /\ d0 \in DOMAIN Layout /\ c0 \in DOMAIN Clusters(d0)
      /\ ThisCluster = <<d0, c0>> /\ ThisHost = <<d0, c0, at.host>> /\ ThisPool = <<d0, c0, at.pool>>
  BY <1>1, <1>2, HereInLayout, Numbers DEF BuildInv, OrderInv, ThisCluster, ThisHost, ThisPool
<1>4. Layout' = Layout /\ \A d : Clusters(d)' = Clusters(d)
  BY SameLayout
<1>5. ASSUME NEW k \in Everywhere, k # <<d0, c0>> PROVE Built(k[1], k[2])' <=> Built(k[1], k[2])
  <2>1. k = <<k[1], k[2]>>
    BY <1>3, EverywherePairs
  <2>2. \A i : <<k[1], k[2], i>> # ThisHost /\ <<k[1], k[2], i>> # ThisPool
    BY <1>3, <1>5, <2>1
  <2>3. /\ \A i : <<k[1], k[2], i>> \in mounts' <=> <<k[1], k[2], i>> \in mounts
        /\ \A p : <<k[1], k[2], p>> \in DOMAIN pools' <=> <<k[1], k[2], p>> \in DOMAIN pools
    BY <1>1, <2>2
  <2>4. QED
    BY <1>1, <1>4, <2>3 DEF Built
<1>6. Built(d0, c0) => Built(d0, c0)'
  BY <1>1, BuiltKept
<1>7. <<d0, c0>> \in Everywhere
  BY <1>3, EverywherePairs
<1>8. {j \in Everywhere : Build!Before(j, <<d0, c0>>)} \subseteq Whole
  <2>1. PrefixOf(d0, c0)
    BY <1>1, <1>2 DEF BuildInv, OrderInv, Progress, Frontier
  <2>2. SUFFICES ASSUME NEW j \in Everywhere, Build!Before(j, <<d0, c0>>) PROVE Built(j[1], j[2])
    BY DEF Whole
  <2>3. j[1] \in DOMAIN Layout /\ j[2] \in DOMAIN Clusters(j[1])
    BY <1>3, EverywherePairs
  <2>4. j[1] < d0 \/ (j[1] = d0 /\ j[2] < c0)
    BY <2>2 DEF Build!Before
  <2>5. QED
    BY <2>1, <2>3, <2>4 DEF PrefixOf
<1>9. CASE Built(d0, c0) \/ ~Built(d0, c0)'
  <2>1. \A k \in Everywhere : Built(k[1], k[2])' <=> Built(k[1], k[2])
    <3>1. Built(d0, c0)' <=> Built(d0, c0)
      BY <1>6, <1>9
    <3>2. \A k \in Everywhere : k = <<d0, c0>> => k[1] = d0 /\ k[2] = c0
      OBVIOUS
    <3>3. QED
      BY <1>5, <3>1, <3>2
  <2>2. QED
    BY <2>1, SameEverywhere DEF Whole
<1>10. CASE ~Built(d0, c0) /\ Built(d0, c0)'
  <2>1. <<d0, c0>>[1] = d0 /\ <<d0, c0>>[2] = c0
    OBVIOUS
  <2>2. <<d0, c0>> \in Everywhere \ Whole
    BY <1>7, <1>10, <2>1 DEF Whole
  <2>3. Whole' = {k \in Everywhere : Built(k[1], k[2])'}
    BY SameEverywhere DEF Whole
  <2>4. ASSUME NEW k \in Everywhere
        PROVE  Built(k[1], k[2])' <=> Built(k[1], k[2]) \/ k = <<d0, c0>>
    BY <1>5, <1>10, <2>1
  <2>5. Whole' = Whole \union {<<d0, c0>>}
    BY <1>7, <2>3, <2>4 DEF Whole
  <2>6. QED
    BY <1>3, <1>8, <2>2, <2>5
<1>11. QED
  BY <1>9, <1>10

\* A step that makes no other cluster whole and reports no more than a failure.
LEMMA BuildStays ==
    ASSUME flags' = flags, Whole' = Whole,
           outcome' = outcome \/ (outcome = "none" /\ outcome' = "failed")
    PROVE  [Build!BuildNext]_(Build!buildVars)
<1>1. Everywhere' = Everywhere
  BY SameEverywhere
<1>2. CASE outcome' = outcome
  BY <1>1, <1>2 DEF Build!buildVars, Whole
<1>3. CASE outcome = "none" /\ outcome' = "failed"
  BY <1>1, <1>3 DEF Build!BuildNext, Build!Fail, Build!Undecided, Whole
<1>4. QED
  BY <1>2, <1>3

LEMMA BuildGrows ==
    ASSUME BuildInv, createSharedDatastore \/ CreateResourcePool, flags' = flags
    PROVE  [Build!BuildNext]_(Build!buildVars)
<1>1. outcome = "none"
  BY DEF createSharedDatastore, CreateResourcePool, BuildInv, OrderInv, Progress, Undecided, Building
<1>2. outcome' \in {"none", "failed"}
  BY <1>1 DEF createSharedDatastore, CreateResourcePool, Answered
<1>3. CASE Whole' = Whole
  BY <1>1, <1>2, <1>3, BuildStays
<1>4. CASE /\ ThisCluster \in Everywhere \ Whole /\ Whole' = Whole \union {ThisCluster}
           /\ {j \in Everywhere : Build!Before(j, ThisCluster)} \subseteq Whole
  <2>1. Everywhere' = Everywhere
    BY SameEverywhere
  <2>2. Build!Grow
    BY <1>1, <1>2, <1>4, <2>1 DEF Build!Grow, Build!Undecided, Whole
  <2>3. QED
    BY <2>2 DEF Build!BuildNext
<1>5. QED
  BY <1>3, <1>4, WholeGrows

\* "Inventory build complete!" is logged with all of the layout whole.
LEMMA BuildFinishes ==
    ASSUME BuildInv, BuildComplete, flags' = flags
    PROVE  Build!BuildNext
<1>1. /\ phase = "datacenter" /\ at.dc \notin DOMAIN Layout /\ outcome' = "complete"
      /\ UNCHANGED <<dcs, clusterHost, mounts, pools>>
  BY DEF BuildComplete, tree
<1>2. outcome = "none"
  BY <1>1 DEF BuildInv, OrderInv, Progress, Undecided, Building
<1>3. Whole' = Whole /\ Everywhere' = Everywhere
  BY <1>1, WholeSame, SameEverywhere
<1>4. PrefixOf(at.dc, 0) /\ flags \in Flags
  BY <1>1, Numbers DEF BuildInv, OrderInv, Progress, Frontier
<1>5. \A d \in DOMAIN Layout : d < at.dc
  BY <1>1, Numbers, CountedEnd DEF BuildInv, OrderInv
<1>6. \A d \in DOMAIN Layout : \A c \in DOMAIN Clusters(d) : Built(d, c)
  BY <1>4, <1>5 DEF PrefixOf
<1>7. Whole = Everywhere
  BY <1>4, <1>6, EverywherePairs DEF Whole
<1>8. Build!Finish
  BY <1>1, <1>2, <1>3, <1>7 DEF Build!Finish, Build!Undecided, Whole
<1>9. QED
  BY <1>8 DEF Build!BuildNext

LEMMA BuildRefines == BuildInv /\ [Next]_vars => [Build!BuildNext]_(Build!buildVars)
<1> SUFFICES ASSUME BuildInv, [Next]_vars PROVE [Build!BuildNext]_(Build!buildVars)
  OBVIOUS
<1>1. flags' = flags
  BY ControlStep DEF BuildInv, OrderInv, vars, main
<1>2. CASE createSharedDatastore \/ CreateResourcePool
  BY <1>1, <1>2, BuildGrows
<1>3. CASE BuildComplete
  BY <1>1, <1>3, BuildFinishes
<1>4. CASE CreateDatacenter \/ CreateCluster \/ addHostToCluster \/ createVMs
  <2>1. Whole' = Whole
    BY <1>1, <1>4, WholeDatacenter, WholeCluster, WholeHost, WholeVMs
  <2>2. outcome = "none"
    BY <1>4 DEF CreateDatacenter, CreateCluster, addHostToCluster, createVMs,
         BuildInv, OrderInv, Progress, Undecided, Building
  <2>3. outcome' \in {outcome, "failed"}
    BY <1>4 DEF CreateDatacenter, CreateCluster, addHostToCluster, createVMs, Answered
  <2>4. QED
    BY <1>1, <2>1, <2>2, <2>3, BuildStays
<1>5. CASE \/ RegisterHostProfile \/ HostsAdded \/ DatastoreShared \/ ResourcePool \/ createNoVMs
           \/ ClusterBuilt \/ DatacenterBuilt \/ CallFails
           \/ MainStep \/ Deadline \/ Fatal \/ Shutdown \/ UNCHANGED vars
  <2>1. UNCHANGED <<dcs, clusterHost, mounts, pools>>
    BY <1>5 DEF RegisterHostProfile, HostsAdded, DatastoreShared, ResourcePool, createNoVMs,
         ClusterBuilt, DatacenterBuilt, CallFails, MainStep, Serve, NewBuilder, NoBuilder, Close,
         ConnectManager, Deadline, Fatal, Shutdown, vars, tree
  <2>2. \/ outcome' = outcome
        \/ (Building \/ phase = "newBuilder") /\ outcome' = "failed"
    BY <1>5 DEF RegisterHostProfile, HostsAdded, DatastoreShared, ResourcePool, createNoVMs,
         ClusterBuilt, DatacenterBuilt, CallFails, Calling, MainStep, Serve, NewBuilder, NoBuilder,
         Close, ConnectManager, Deadline, Fatal, Shutdown, Answered, Goto, vars, main, Building
  <2>3. Whole' = Whole
    BY <1>1, <2>1, WholeSame
  <2>4. outcome' = outcome \/ (outcome = "none" /\ outcome' = "failed")
    BY <2>2 DEF BuildInv, OrderInv, Progress, Undecided
  <2>5. QED
    BY <1>1, <2>3, <2>4, BuildStays
<1>6. QED
  BY <1>2, <1>3, <1>4, <1>5 DEF Next, BuildStep

\* For any flags and whatever fails, the builder implements InventoryBuild: the
\* clusters of the layout become whole in its order and stay so, none does after
\* the first error, and only a whole layout is called complete.
THEOREM StartupImplementsBuild == Spec => ImplementsBuild
<1>1. Init => Build!BuildInit
  <2> SUFFICES ASSUME Init PROVE Build!BuildInit
    OBVIOUS
  <2>1. flags \in Flags /\ dcs = {} /\ outcome = "none"
    BY DEF Init
  <2>2. Everywhere \subseteq Nat \X Nat
    BY <2>1, EverywherePairs
  <2>3. Whole = {}
    BY <2>1 DEF Whole, Built
  <2>4. QED
    BY <2>1, <2>2, <2>3 DEF Build!BuildInit, Whole
<1>2. QED
  BY <1>1, StartupBuildInv, BuildRefines, PTL DEF Spec, ImplementsBuild, Build!BuildSpec

-----------------------------------------------------------------------------
(* Sensors.  All hosts show the sensors of the profile applied last; what  *)
(* makes the dashboard whole is that every profile has sensors of every    *)
(* type, and that no host is added without a profile.                      *)

\* A host has sockets and memory.
Sized(p) == p.sockets \in Nat /\ p.memory \in Nat

LEMMA ProfilesSized == \A p \in Profiles : Sized(p)
<1>1. ASSUME NEW row \in ClusterProfiles PROVE Sized(row[2]) /\ Sized(row[3])
  <2>1. Sized(DellR760) /\ Sized(DellR750) /\ Sized(DellR660) /\ Sized(DellR740xd)
    BY DEF Sized, DellR760, DellR750, DellR660, DellR740xd, Hw
  <2>2. Sized(HPE_DL380_Gen10Plus) /\ Sized(HPE_DL360_Gen11) /\ Sized(HPE_DL380_Gen11)
    BY DEF Sized, HPE_DL380_Gen10Plus, HPE_DL360_Gen11, HPE_DL380_Gen11, Hw
  <2>3. Sized(Cisco_C240_M7) /\ Sized(Cisco_210C_M7) /\ Sized(Lenovo_SR650_V3) /\ Sized(Lenovo_SR630_V3)
    BY DEF Sized, Cisco_C240_M7, Cisco_210C_M7, Lenovo_SR650_V3, Lenovo_SR630_V3, Hw
  <2>4. Sized(Supermicro_621C) /\ Sized(Supermicro_121H)
    BY DEF Sized, Supermicro_621C, Supermicro_121H, Hw
  <2>5. QED
    BY <2>1, <2>2, <2>3, <2>4 DEF ClusterProfiles
<1>2. Sized(DellR750)
  BY DEF Sized, DellR750, Hw
<1>3. QED
  BY <1>1, <1>2 DEF Profiles

LEMMA ProfileInProfiles == \A cluster, i : ProfileForHost(cluster, i) \in Profiles
<1> SUFFICES ASSUME NEW cluster, NEW i PROVE ProfileForHost(cluster, i) \in Profiles
  OBVIOUS
<1>1. CASE \E row \in ClusterProfiles : row[1] = cluster
  <2>1. PICK row \in ClusterProfiles : row = CHOOSE other \in ClusterProfiles : other[1] = cluster
    BY <1>1, Zenon
  <2>2. ProfileForHost(cluster, i) = row[IF i % 2 = 0 THEN 3 ELSE 2]
    BY <1>1, <2>1, Zenon DEF ProfileForHost
  <2>3. ProfileForHost(cluster, i) \in {row[2], row[3]}
    BY <2>2
  <2>4. QED
    BY <2>1, <2>3 DEF Profiles
<1>2. CASE ~ \E row \in ClusterProfiles : row[1] = cluster
  BY <1>2, Zenon DEF ProfileForHost, Profiles
<1>3. QED
  BY <1>1, <1>2

\* The types of the sensors, and how many there are.
LEMMA SensorsShape ==
    ASSUME NEW p, Sized(p)
    PROVE  /\ DOMAIN BuildSensors(p) =
                {"system", "processor", "temperature", "fan", "power", "voltage", "memory", "battery",
                 "storage", "systemboard", "bios", "cable", "watchdog"}
           /\ \A t \in DOMAIN BuildSensors(p) : BuildSensors(p)[t] \in Nat \ {0}
<1>1. Dimms(p) \in Nat \ {0}
  BY DEF Dimms, AtLeast, Sized
<1>2. AtLeast(p.sockets, 1) \in Nat \ {0}
  BY DEF AtLeast, Sized
<1>3. QED
  BY <1>1, <1>2 DEF BuildSensors

LEMMA EveryCategory ==
    ASSUME NEW p, Sized(p), NEW category \in Category
    PROVE  Monitored(BuildSensors(p), category) > 0
<1> DEFINE built == BuildSensors(p)
           type == IF category = "other" THEN "system" ELSE category
<1>1. type \in DOMAIN built
  BY SensorsShape DEF Category
<1>2. {t \in DOMAIN built : Bucket(t) = category} = {type}
  BY SensorsShape DEF Category, Bucket
<1>3. built[type] \in Nat \ {0}
  BY <1>1, SensorsShape
<1> HIDE DEF built, type
<1>4. Monitored(built, category) = built[type]
  BY <1>2, <1>3, SumOfOne DEF Monitored
<1>5. QED
  BY <1>3, <1>4 DEF built

\* Once there is a host, the sensors are those of some profile.
Sensed == hardware # Empty => \E p \in Profiles : sensors = BuildSensors(p)

SensorInv == StartupInv /\ Sensed

LEMMA SensedStep == SensorInv /\ [Next]_vars => SensorInv'
<1> SUFFICES ASSUME SensorInv, [Next]_vars PROVE SensorInv'
  OBVIOUS
<1>1. StartupInv /\ StartupInv'
  BY StartupStep DEF SensorInv
<1>2. CASE addHostToCluster
  <2> DEFINE p == ProfileForHost(Config.name, at.host)
  <2>1. LookupHostProfile(HostName(at.dc, at.cluster, at.host)) = p
    BY <1>1, <1>2 DEF addHostToCluster, StartupInv, Standing, Registered
  <2>2. p \in Profiles /\ p # NoProfile
    BY ProfileInProfiles, StartupAssumption
  <2> HIDE DEF p
  <2>3. sensors' = BuildSensors(p)
    BY <1>2, <2>1, <2>2 DEF addHostToCluster, HostCustomizationFunc, ApplySensors
  <2>4. QED
    BY <1>1, <2>2, <2>3 DEF SensorInv, Sensed
<1>3. CASE [Next]_vars /\ ~addHostToCluster
  <2>1. UNCHANGED <<hardware, sensors>>
    BY <1>3 DEF Next, BuildStep, MainStep, CreateDatacenter, CreateCluster, RegisterHostProfile,
         HostsAdded, createSharedDatastore, DatastoreShared, ResourcePool,
         CreateResourcePool, createVMs, createNoVMs, ClusterBuilt, DatacenterBuilt, BuildComplete,
         CallFails, Serve, NewBuilder, NoBuilder, Close, ConnectManager, Deadline, Fatal,
         Shutdown, vars, tree
  <2>2. QED
    BY <1>1, <2>1 DEF SensorInv, Sensed, Empty
<1>4. QED
  BY <1>2, <1>3

\* For any flags, wherever the build fails and whichever profile was applied last,
\* the sensors that BuildSensors gave the hosts fill every category.
THEOREM StartupDashboardPopulated == Spec => []DashboardPopulated
<1>1. Init => SensorInv
  BY StartupInit DEF Init, SensorInv, Sensed
<1>2. SensorInv => DashboardPopulated
  BY ProfilesSized, EveryCategory DEF SensorInv, Sensed, DashboardPopulated
<1>3. QED
  BY <1>1, <1>2, SensedStep, PTL DEF Spec

-----------------------------------------------------------------------------
(* What the layouts ask for: the numbers and the names.                    *)

\* The names of VMs are distinct in a datacenter ...
PoolPrefixes(dc) ==
    \A c1, c2 \in DOMAIN dc.clusters :
        \A p1 \in DOMAIN dc.clusters[c1].pools, p2 \in DOMAIN dc.clusters[c2].pools :
            dc.clusters[c1].pools[p1].prefix = dc.clusters[c2].pools[p2].prefix
                => c1 = c2 /\ p1 = p2

\* ... and so are those of clusters ...
ClusterNames(dc) ==
    \A c1, c2 \in DOMAIN dc.clusters :
        dc.clusters[c1].name = dc.clusters[c2].name => c1 = c2

\* ... and the prefixes of its hosts, which are in S.
HostPrefixes(dc, S) ==
    \A c1 \in DOMAIN dc.clusters :
        /\ dc.clusters[c1].prefix \in S
        /\ \A c2 \in DOMAIN dc.clusters :
             dc.clusters[c1].prefix = dc.clusters[c2].prefix => c1 = c2

\* A name belongs to one pool of a cluster.
PoolNames(dc) ==
    \A c \in DOMAIN dc.clusters : \A p, q \in DOMAIN dc.clusters[c].pools :
        dc.clusters[c].pools[p].name = dc.clusters[c].pools[q].name => p = q

NamesOK(dc) == PoolPrefixes(dc) /\ PoolNames(dc) /\ ClusterNames(dc)

LEMMA EastNames == NamesOK(dcUSEast)
<1>1. ClusterNames(dcUSEast)
  BY DEF dcUSEast, Datacenter, Cluster, ClusterNames
<1>2. PoolPrefixes(dcUSEast)
  BY SMTT(40) DEF dcUSEast, Datacenter, Cluster, Pool, PoolPrefixes
<1>3. PoolNames(dcUSEast)
  BY SMTT(40) DEF dcUSEast, Datacenter, Cluster, Pool, PoolNames
<1>4. QED
  BY <1>1, <1>2, <1>3 DEF NamesOK

LEMMA WestNames == NamesOK(dcUSWest)
<1>1. ClusterNames(dcUSWest)
  BY DEF dcUSWest, Datacenter, Cluster, ClusterNames
<1>2. PoolPrefixes(dcUSWest)
  BY SMTT(40) DEF dcUSWest, Datacenter, Cluster, Pool, PoolPrefixes
<1>3. PoolNames(dcUSWest)
  BY SMTT(40) DEF dcUSWest, Datacenter, Cluster, Pool, PoolNames
<1>4. QED
  BY <1>1, <1>2, <1>3 DEF NamesOK

LEMMA EUNames == NamesOK(dcEU)
<1>1. ClusterNames(dcEU)
  BY DEF dcEU, Datacenter, Cluster, ClusterNames
<1>2. PoolPrefixes(dcEU)
  BY SMTT(40) DEF dcEU, Datacenter, Cluster, Pool, PoolPrefixes
<1>3. PoolNames(dcEU)
  BY SMTT(40) DEF dcEU, Datacenter, Cluster, Pool, PoolNames
<1>4. QED
  BY <1>1, <1>2, <1>3 DEF NamesOK

LEMMA APACNames == NamesOK(dcAPAC)
<1>1. ClusterNames(dcAPAC)
  BY DEF dcAPAC, Datacenter, Cluster, ClusterNames
<1>2. PoolPrefixes(dcAPAC)
  BY SMTT(40) DEF dcAPAC, Datacenter, Cluster, Pool, PoolPrefixes
<1>3. PoolNames(dcAPAC)
  BY SMTT(40) DEF dcAPAC, Datacenter, Cluster, Pool, PoolNames
<1>4. QED
  BY <1>1, <1>2, <1>3 DEF NamesOK

LEMMA DevLabNames == NamesOK(dcDevLab)
<1>1. ClusterNames(dcDevLab)
  BY DEF dcDevLab, Datacenter, Cluster, ClusterNames
<1>2. PoolPrefixes(dcDevLab)
  BY SMTT(40) DEF dcDevLab, Datacenter, Cluster, Pool, PoolPrefixes
<1>3. PoolNames(dcDevLab)
  BY SMTT(40) DEF dcDevLab, Datacenter, Cluster, Pool, PoolNames
<1>4. QED
  BY <1>1, <1>2, <1>3 DEF NamesOK

\* The prefixes of the hosts, by datacenter.
DefaultPrefix ==
    <<{<<"ESXi-WEB-E">>, <<"ESXi-APP-E">>, <<"ESXi-DB-E">>, <<"ESXi-BD-E">>},
      {<<"ESXi-PROD-W">>, <<"ESXi-DR-W">>, <<"ESXi-EDGE-W">>},
      {<<"ESXi-EU">>, <<"ESXi-EU-C">>},
      {<<"ESXi-APAC">>, <<"ESXi-APAC-D">>},
      {<<"ESXi-DEV">>, <<"ESXi-STG">>, <<"ESXi-SBX">>}>>

LEMMA DefaultPrefixes ==
    /\ HostPrefixes(dcUSEast, DefaultPrefix[1])
    /\ HostPrefixes(dcUSWest, DefaultPrefix[2])
    /\ HostPrefixes(dcEU, DefaultPrefix[3])
    /\ HostPrefixes(dcAPAC, DefaultPrefix[4])
    /\ HostPrefixes(dcDevLab, DefaultPrefix[5])
<1>1. HostPrefixes(dcUSEast, DefaultPrefix[1])
  BY DEF dcUSEast, Datacenter, Cluster, HostPrefixes, DefaultPrefix
<1>2. HostPrefixes(dcUSWest, DefaultPrefix[2])
  BY DEF dcUSWest, Datacenter, Cluster, HostPrefixes, DefaultPrefix
<1>3. HostPrefixes(dcEU, DefaultPrefix[3])
  BY DEF dcEU, Datacenter, Cluster, HostPrefixes, DefaultPrefix
<1>4. HostPrefixes(dcAPAC, DefaultPrefix[4])
  BY DEF dcAPAC, Datacenter, Cluster, HostPrefixes, DefaultPrefix
<1>5. HostPrefixes(dcDevLab, DefaultPrefix[5])
  BY DEF dcDevLab, Datacenter, Cluster, HostPrefixes, DefaultPrefix
<1>6. QED
  BY <1>1, <1>2, <1>3, <1>4, <1>5

\* The pools of a cluster of SimpleConfig before those without VMs are left out.
AllPools(d, c, vms) ==
    LET share == PoolShares(vms)
    IN  <<Pool("RP-Web", share[1], <<"vm-web", d, c>>), Pool("RP-App", share[2], <<"vm-app", d, c>>),
          Pool("RP-DB", share[3], <<"vm-db", d, c>>)>>

\* No pool, the last alone, or all three.
ZeroOneThree(vms, list, p) ==
    \/ vms = 0 /\ list = <<>>
    \/ p[3].count = vms /\ list = <<p[3]>>
    \/ list = <<p[1], p[2], p[3]>>

LEMMA PoolsShared ==
    ASSUME NEW d, NEW c, NEW vms \in Nat
    PROVE  ZeroOneThree(vms, SimplePools(d, c, vms), AllPools(d, c, vms))
<1> DEFINE p == AllPools(d, c, vms)
           T == {p[1], p[2], p[3]}
<1>1. p[1].count = vms \div 3 /\ p[2].count = vms \div 3 /\ p[3].count = vms - 2 * (vms \div 3)
  BY DEF AllPools, PoolShares, Pool
<1>2. SimplePools(d, c, vms) = Unless0(p[1]) \o Unless0(p[2]) \o Unless0(p[3])
  BY DEF SimplePools, AllPools
<1>3. PICK a, b, e : a = p[1] /\ b = p[2] /\ e = p[3]
  OBVIOUS
<1> HIDE DEF p
<1>4. /\ vms = 0 => ~(a.count > 0) /\ ~(b.count > 0) /\ ~(e.count > 0)
      /\ vms \in {1, 2} => ~(a.count > 0) /\ ~(b.count > 0) /\ e.count > 0 /\ e.count = vms
      /\ vms >= 3 => a.count > 0 /\ b.count > 0 /\ e.count > 0
  BY <1>1, <1>3
<1>5. <<>> \o <<>> \o <<>> = <<>> /\ <<>> \o <<>> \o <<e>> = <<e>> /\ <<a>> \o <<b>> \o <<e>> = <<a, b, e>>
  <2> DEFINE U == {a, b, e}
  <2>1. <<>> \in Seq(U) /\ <<a>> \in Seq(U) /\ <<b>> \in Seq(U) /\ <<e>> \in Seq(U)
    OBVIOUS
  <2>2. <<>> \o <<>> = <<>> /\ <<>> \o <<e>> = <<e>>
    BY <2>1
  <2>3. <<a>> \o <<b>> = <<a, b>>
    <3> DEFINE s == <<a>> \o <<b>>
    <3>1. s \in Seq(U) /\ Len(s) = 2 /\ s[1] = a /\ s[2] = b
      BY <2>1, ConcatProperties
    <3> HIDE DEF s
    <3>2. s = <<a, b>>
      BY <3>1
    <3>3. QED
      BY <3>2 DEF s
  <2>4. <<a, b>> \o <<e>> = <<a, b, e>>
    <3> DEFINE s == <<a, b>> \o <<e>>
    <3>1. s \in Seq(U) /\ Len(s) = 3 /\ s[1] = a /\ s[2] = b /\ s[3] = e
      BY <2>1, ConcatProperties
    <3> HIDE DEF s
    <3>2. s = <<a, b, e>>
      BY <3>1
    <3>3. QED
      BY <3>2 DEF s
  <2>5. QED
    BY <2>2, <2>3, <2>4, Zenon
<1>6. vms = 0 => SimplePools(d, c, vms) = <<>>
  BY <1>2, <1>3, <1>4, <1>5, Zenon DEF Unless0
<1>7. vms \in {1, 2} => SimplePools(d, c, vms) = <<e>>
  BY <1>2, <1>3, <1>4, <1>5, Zenon DEF Unless0
<1>8. vms >= 3 => SimplePools(d, c, vms) = <<a, b, e>>
  BY <1>2, <1>3, <1>4, <1>5, Zenon DEF Unless0
<1>9. vms = 0 \/ vms \in {1, 2} \/ vms >= 3
  OBVIOUS
<1>10. QED
  BY <1>3, <1>4, <1>6, <1>7, <1>8, <1>9, Zenon DEF ZeroOneThree, p

LEMMA SimpleSum ==
    ASSUME NEW d, NEW c, NEW vms \in Nat, NEW list, list = SimplePools(d, c, vms)
    PROVE  SumFunction([p \in DOMAIN list |-> list[p].count]) = vms
<1> DEFINE f == [p \in DOMAIN list |-> list[p].count]
           own == AllPools(d, c, vms)
<1>1. SumFunction(f) = SumFunctionOnSet(f, DOMAIN list)
  BY DEF SumFunction
<1>2. /\ own[1].count \in Int /\ own[2].count \in Int /\ own[3].count \in Int
      /\ own[1].count + own[2].count + own[3].count = vms
  BY DEF AllPools, PoolShares, Pool
<1>3. ZeroOneThree(vms, list, own)
  BY PoolsShared
<1> HIDE DEF own
<1>4. CASE vms = 0 /\ list = <<>>
  <2>1. DOMAIN list = {}
    BY <1>4
  <2>2. QED
    BY <1>1, <1>4, <2>1, SumOfNone
<1>5. CASE own[3].count = vms /\ list = <<own[3]>>
  <2>1. DOMAIN list = {1} /\ f[1] = vms
    BY <1>5
  <2> HIDE DEF f
  <2>2. SumFunctionOnSet(f, {1}) = f[1]
    BY <2>1, SumOfOne
  <2>3. QED
    BY <1>1, <2>1, <2>2 DEF f
<1>6. CASE list = <<own[1], own[2], own[3]>>
  <2>1. DOMAIN list = 1..3 /\ f[1] = own[1].count /\ f[2] = own[2].count /\ f[3] = own[3].count
    BY <1>6
  <2> HIDE DEF f
  <2>2. \A x \in 1..3 : f[x] \in Int
    BY <1>2, <2>1
  <2>3. SumFunctionOnSet(f, 1..3) = f[1] + f[2] + f[3]
    BY <2>2, SumOfThree
  <2>4. QED
    BY <1>1, <1>2, <2>1, <2>3 DEF f
<1>7. QED
  BY <1>3, <1>4, <1>5, <1>6 DEF ZeroOneThree

\* The prefix of a pool is its kind, its datacenter and its cluster, and its
\* name is its kind.
LEMMA SimplePrefixes ==
    ASSUME NEW d, NEW c, NEW vms \in Nat
    PROVE  /\ DOMAIN SimplePools(d, c, vms) \subseteq 1..3
           /\ \A p \in DOMAIN SimplePools(d, c, vms) :
                /\ SimplePools(d, c, vms)[p].prefix[3] = c
                /\ \A q \in DOMAIN SimplePools(d, c, vms) :
                     SimplePools(d, c, vms)[p].prefix = SimplePools(d, c, vms)[q].prefix => p = q
                /\ \A q \in DOMAIN SimplePools(d, c, vms) :
                     SimplePools(d, c, vms)[p].name = SimplePools(d, c, vms)[q].name => p = q
<1> DEFINE list == SimplePools(d, c, vms)
           own == AllPools(d, c, vms)
<1>1. /\ own[1].prefix = <<"vm-web", d, c>> /\ own[2].prefix = <<"vm-app", d, c>>
      /\ own[3].prefix = <<"vm-db", d, c>>
      /\ own[1].name = "RP-Web" /\ own[2].name = "RP-App" /\ own[3].name = "RP-DB"
  BY DEF AllPools, Pool
<1>2. ZeroOneThree(vms, list, own)
  BY PoolsShared
<1> HIDE DEF own, list
<1>3. CASE vms = 0 /\ list = <<>>
  BY <1>3 DEF list
<1>4. CASE own[3].count = vms /\ list = <<own[3]>>
  <2>1. DOMAIN list = {1} /\ list[1].prefix = <<"vm-db", d, c>>
    BY <1>1, <1>4
  <2>2. QED
    BY <2>1 DEF list
<1>5. CASE list = <<own[1], own[2], own[3]>>
  <2>1. /\ DOMAIN list = 1..3 /\ list[1].prefix = <<"vm-web", d, c>>
        /\ list[2].prefix = <<"vm-app", d, c>> /\ list[3].prefix = <<"vm-db", d, c>>
        /\ list[1].name = "RP-Web" /\ list[2].name = "RP-App" /\ list[3].name = "RP-DB"
    BY <1>1, <1>5
  <2>2. <<"vm-web", d, c>> # <<"vm-app", d, c>> /\ <<"vm-web", d, c>> # <<"vm-db", d, c>>
        /\ <<"vm-db", d, c>> # <<"vm-app", d, c>>
    OBVIOUS
  <2>3. QED
    BY <2>1, <2>2 DEF list
<1>6. QED
  BY <1>2, <1>3, <1>4, <1>5 DEF ZeroOneThree

\* No two clusters share the prefix of their hosts.
HostNamesOK(layout) ==
    \A d1, d2 \in DOMAIN layout :
        \A c1 \in DOMAIN layout[d1].clusters, c2 \in DOMAIN layout[d2].clusters :
            layout[d1].clusters[c1].prefix = layout[d2].clusters[c2].prefix => d1 = d2 /\ c1 = c2

LEMMA DefaultNames ==
    /\ \A d \in DOMAIN DefaultConfig : NamesOK(DefaultConfig[d])
    /\ HostNamesOK(DefaultConfig)
<1>1. /\ DOMAIN DefaultConfig = 1..5 /\ DefaultConfig[1] = dcUSEast /\ DefaultConfig[2] = dcUSWest
      /\ DefaultConfig[3] = dcEU /\ DefaultConfig[4] = dcAPAC /\ DefaultConfig[5] = dcDevLab
  BY DEF DefaultConfig
<1>2. \A d \in DOMAIN DefaultConfig : NamesOK(DefaultConfig[d])
  BY <1>1, EastNames, WestNames, EUNames, APACNames, DevLabNames
<1>3. \A d \in DOMAIN DefaultConfig : HostPrefixes(DefaultConfig[d], DefaultPrefix[d])
  BY <1>1, DefaultPrefixes
<1>4. \A d1, d2 \in 1..5 : d1 # d2 => DefaultPrefix[d1] \intersect DefaultPrefix[d2] = {}
  BY DEF DefaultPrefix
<1>5. HostNamesOK(DefaultConfig)
  BY <1>1, <1>3, <1>4 DEF HostNamesOK, HostPrefixes
<1>6. QED
  BY <1>2, <1>5

LEMMA SimpleNames ==
    ASSUME NEW f, f.vm \in Int
    PROVE  /\ \A d \in DOMAIN SimpleConfig(f) : NamesOK(SimpleConfig(f)[d])
           /\ HostNamesOK(SimpleConfig(f))
<1> DEFINE layout == SimpleConfig(f)
           vms == AtLeast(f.vm, 0)
<1>1. vms \in Nat
  BY DEF AtLeast
<1>2. ASSUME NEW d \in DOMAIN layout, NEW c \in DOMAIN layout[d].clusters
      PROVE  /\ layout[d].clusters[c].name = <<"Cluster", c>>
             /\ layout[d].clusters[c].prefix = <<"ESXi", d, c>>
             /\ layout[d].clusters[c].pools = SimplePools(d, c, vms)
  BY DEF SimpleConfig, Datacenter, Cluster
<1> HIDE DEF layout, vms
<1>3. HostNamesOK(layout)
  BY <1>2 DEF HostNamesOK
<1>4. ASSUME NEW d \in DOMAIN layout PROVE NamesOK(layout[d])
  <2>1. ClusterNames(layout[d])
    BY <1>2 DEF ClusterNames
  <2>2. PoolPrefixes(layout[d])
    BY <1>1, <1>2, SimplePrefixes DEF PoolPrefixes
  <2>3. PoolNames(layout[d])
    BY <1>1, <1>2, SimplePrefixes DEF PoolNames
  <2>4. QED
    BY <2>1, <2>2, <2>3 DEF NamesOK
<1>5. QED
  BY <1>3, <1>4 DEF layout

LEMMA LayoutNames ==
    ASSUME flags \in Flags
    PROVE  /\ \A d \in DOMAIN Layout : NamesOK(Layout[d])
           /\ HostNamesOK(Layout)
<1>1. flags.vm \in Int
  BY StartupAssumption
<1>2. QED
  BY <1>1, DefaultNames, SimpleNames DEF Layout, LayoutOf

LEMMA LayoutIsSound ==
    ASSUME flags \in Flags
    PROVE  LayoutSound
<1>1. \A k \in Everywhere : /\ k[1] \in DOMAIN Layout /\ k[2] \in DOMAIN Layout[k[1]].clusters
                            /\ k = <<k[1], k[2]>>
  BY DEF Everywhere, Clusters
<1>2. ASSUME flags.dc > 0, NEW k \in Everywhere
      PROVE  LET cluster == Clusters(k[1])[k[2]]
             IN  /\ SumFunction([p \in DOMAIN cluster.pools |-> cluster.pools[p].count])
                      = AtLeast(flags.vm, 0)
                 /\ cluster.hosts >= 1
  <2>1. flags.vm \in Int /\ flags.host \in Int
    BY StartupAssumption
  <2>2. AtLeast(flags.vm, 0) \in Nat /\ AtLeast(flags.host, 1) >= 1
    BY <2>1 DEF AtLeast
  <2>3. /\ Clusters(k[1])[k[2]].hosts = AtLeast(flags.host, 1)
        /\ Clusters(k[1])[k[2]].pools = SimplePools(k[1], k[2], AtLeast(flags.vm, 0))
    BY <1>1, <1>2 DEF Layout, LayoutOf, Clusters, SimpleConfig, Datacenter, Cluster
  <2>4. QED
    BY <2>2, <2>3, SimpleSum
<1>3. Distinct(Everywhere, LAMBDA k : <<k[1], Clusters(k[1])[k[2]].name>>)
  <2>1. SUFFICES ASSUME NEW x \in Everywhere, NEW y \in Everywhere,
                        <<x[1], Clusters(x[1])[x[2]].name>> = <<y[1], Clusters(y[1])[y[2]].name>>
                 PROVE  x = y
    BY Zenon DEF Distinct
  <2>2. x[1] = y[1] /\ Clusters(x[1])[x[2]].name = Clusters(x[1])[y[2]].name
    BY <2>1
  <2>3. ClusterNames(Layout[x[1]])
    BY <1>1, LayoutNames DEF NamesOK
  <2>4. QED
    BY <1>1, <2>2, <2>3 DEF ClusterNames, Clusters
<1>4. Distinct(Everywhere, LAMBDA k : Clusters(k[1])[k[2]].prefix)
  <2>1. SUFFICES ASSUME NEW x \in Everywhere, NEW y \in Everywhere,
                        Clusters(x[1])[x[2]].prefix = Clusters(y[1])[y[2]].prefix
                 PROVE  x = y
    BY Zenon DEF Distinct
  <2>2. QED
    BY <1>1, <2>1, LayoutNames DEF HostNamesOK, Clusters
<1>5. ASSUME NEW d \in DOMAIN Layout
      PROVE  Distinct({k \in Everywhere \X (1..3) :
                         k[1][1] = d /\ k[2] \in DOMAIN Clusters(d)[k[1][2]].pools},
                      LAMBDA k : Clusters(d)[k[1][2]].pools[k[2]].prefix)
  <2> DEFINE S == {k \in Everywhere \X (1..3) :
                         k[1][1] = d /\ k[2] \in DOMAIN Clusters(d)[k[1][2]].pools}
  <2>1. SUFFICES ASSUME NEW x \in S, NEW y \in S,
                        Clusters(d)[x[1][2]].pools[x[2]].prefix = Clusters(d)[y[1][2]].pools[y[2]].prefix
                 PROVE  x = y
    BY Zenon DEF Distinct
  <2>2. PoolPrefixes(Layout[d])
    BY LayoutNames DEF NamesOK
  <2>3. /\ x[1] \in Everywhere /\ y[1] \in Everywhere /\ x[1][1] = d /\ y[1][1] = d
        /\ x = <<x[1], x[2]>> /\ y = <<y[1], y[2]>>
        /\ x[2] \in DOMAIN Clusters(d)[x[1][2]].pools /\ y[2] \in DOMAIN Clusters(d)[y[1][2]].pools
    OBVIOUS
  <2> HIDE DEF S
  <2>4. x[1][2] = y[1][2] /\ x[2] = y[2]
    <3>1. PICK dc, c1, c2, p1, p2 :
             dc = Layout[d] /\ c1 = x[1][2] /\ c2 = y[1][2] /\ p1 = x[2] /\ p2 = y[2]
      OBVIOUS
    <3>2. c1 \in DOMAIN dc.clusters /\ c2 \in DOMAIN dc.clusters
      BY <1>1, <2>3, <3>1
    <3>3. /\ p1 \in DOMAIN dc.clusters[c1].pools /\ p2 \in DOMAIN dc.clusters[c2].pools
          /\ dc.clusters[c1].pools[p1].prefix = dc.clusters[c2].pools[p2].prefix
      BY <2>1, <2>3, <3>1, Zenon DEF Clusters
    <3>4. PoolPrefixes(dc)
      BY <2>2, <3>1, Zenon
    <3>5. c1 = c2 /\ p1 = p2
      BY <3>2, <3>3, <3>4, Zenon DEF PoolPrefixes
    <3>6. QED
      BY <3>1, <3>5, Zenon
  <2>5. QED
    BY <1>1, <2>3, <2>4
<1>6. ASSUME NEW k \in Everywhere
      PROVE  LET cluster == Clusters(k[1])[k[2]]
             IN  Distinct(DOMAIN cluster.pools, LAMBDA p : cluster.pools[p].name)
  <2>1. PoolNames(Layout[k[1]])
    BY <1>1, LayoutNames DEF NamesOK
  <2> DEFINE cluster == Clusters(k[1])[k[2]]
  <2>2. \A p, q \in DOMAIN cluster.pools :
            cluster.pools[p].name = cluster.pools[q].name => p = q
    BY <1>1, <2>1 DEF PoolNames, Clusters
  <2>3. QED
    BY <2>2, Zenon DEF Distinct
<1>7. QED
  BY <1>2, <1>3, <1>4, <1>5, <1>6, Zenon DEF LayoutSound

\* Whatever the flags are, the layout has the VMs and hosts they ask for, and no
\* name is used twice where a second use would be refused or take another's profile.
THEOREM StartupLayoutSound == Spec => []LayoutSound
<1>1. StartupInv => LayoutSound
  BY LayoutIsSound DEF StartupInv, ControlOK
<1>2. QED
  BY <1>1, StartupInit, StartupStep, PTL DEF Spec

-----------------------------------------------------------------------------
(* What hosts share.  The first two hosts of the default layout get        *)
(* profiles whose BIOS versions differ, and the template has room for one. *)

LEMMA WebTierProfiles ==
    /\ ProfileForHost(<<"Cluster-WebTier">>, 1) = DellR760
    /\ ProfileForHost(<<"Cluster-WebTier">>, 2) = DellR750
<1> DEFINE row == <<<<"Cluster-WebTier">>, DellR760, DellR750>>
           picked == CHOOSE r \in ClusterProfiles : r[1] = <<"Cluster-WebTier">>
<1>1. row \in ClusterProfiles /\ row[1] = <<"Cluster-WebTier">>
  BY DEF ClusterProfiles
<1>2. \A r \in ClusterProfiles : r[1] = <<"Cluster-WebTier">> => r = row
  BY DEF ClusterProfiles
<1>3. picked = row
  <2> HIDE DEF row
  <2>1. picked \in ClusterProfiles /\ picked[1] = <<"Cluster-WebTier">>
    BY <1>1
  <2>2. QED
    BY <1>2, <2>1
<1>4. row[2] = DellR760 /\ row[3] = DellR750
  OBVIOUS
<1>5. \E r \in ClusterProfiles : r[1] = <<"Cluster-WebTier">>
  <2> HIDE DEF row
  <2>1. QED
    BY <1>1
<1> HIDE DEF row, picked
<1>6. 1 % 2 = 1 /\ 2 % 2 = 0
  OBVIOUS
<1>7. QED
  BY <1>3, <1>4, <1>5, <1>6 DEF ProfileForHost, picked

LEMMA WebTierHosts ==
    ASSUME ~(flags.dc > 0)
    PROVE  /\ 1 \in DOMAIN Layout /\ 1 \in DOMAIN Clusters(1)
           /\ Clusters(1)[1].name = <<"Cluster-WebTier">> /\ Clusters(1)[1].hosts = 8
<1>1. Layout = DefaultConfig
  BY DEF Layout, LayoutOf
<1>2. 1 \in DOMAIN DefaultConfig /\ DefaultConfig[1] = dcUSEast
  BY DEF DefaultConfig
<1>3. /\ 1 \in DOMAIN dcUSEast.clusters /\ dcUSEast.clusters[1].name = <<"Cluster-WebTier">>
      /\ dcUSEast.clusters[1].hosts = 8
  BY DEF dcUSEast, Datacenter, Cluster
<1>4. QED
  BY <1>1, <1>2, <1>3 DEF Clusters

\* Finding 5 in general: whenever the default layout is complete, some host
\* shows hardware that is not its own, in whatever order calls were answered and
\* however many VMs failed.
THEOREM StartupHardwareShared ==
    Spec => [](outcome = "complete" /\ ~(flags.dc > 0) => ~HostsShowOwnHardware)
<1>1. OrderInv => (outcome = "complete" /\ ~(flags.dc > 0) => ~HostsShowOwnHardware)
  <2> SUFFICES ASSUME OrderInv, outcome = "complete", ~(flags.dc > 0), HostsShowOwnHardware
               PROVE  FALSE
    OBVIOUS
  <2>1. /\ 1 \in DOMAIN Layout /\ 1 \in DOMAIN Clusters(1)
        /\ Clusters(1)[1].name = <<"Cluster-WebTier">> /\ Clusters(1)[1].hosts = 8
    BY WebTierHosts
  <2>2. Built(1, 1)
    BY <2>1 DEF OrderInv, Progress, CompleteMeansBuilt
  <2>3. <<1, 1, 1>> \in mounts /\ <<1, 1, 2>> \in mounts
    BY <2>1, <2>2 DEF Built
  <2>4. <<1, 1, 1>> \in DOMAIN hardware /\ <<1, 1, 2>> \in DOMAIN hardware
    BY <2>3 DEF OrderInv, StartupInv, TreeOK
  <2>5. hardware[<<1, 1, 1>>] = DellR760 /\ hardware[<<1, 1, 2>>] = DellR750
    BY <2>1, <2>4, WebTierProfiles DEF OrderInv, StartupInv, HostsCustomized
  <2>6. DellR760 # NoProfile /\ DellR750 # NoProfile
    <3>1. DellR760 \in Profiles /\ DellR750 \in Profiles
      BY WebTierProfiles, ProfileInProfiles
    <3>2. QED
      BY <3>1, StartupAssumption
  <2>7. shared.version = DellR760.version /\ shared.version = DellR750.version
    BY <2>4, <2>5, <2>6 DEF HostsShowOwnHardware
  <2>8. DellR760.version # DellR750.version
    BY DEF DellR760, DellR750, Hw
  <2>9. QED
    BY <2>7, <2>8
<1>2. QED
  BY <1>1, StartupOrder, PTL
=============================================================================
