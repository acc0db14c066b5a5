--------------------------- MODULE InventoryConfig ---------------------------
(***************************************************************************)
(* pkg/inventory: what the builder is asked to build (builder.go), and the *)
(* hardware that each host is to show (hardware.go, sensors.go).  A name   *)
(* that the code formats from numbers is the tuple of its parts.           *)
(***************************************************************************)
EXTENDS Integers, SequencesExt

Pool(name, count, prefix) == [name |-> name, count |-> count, prefix |-> prefix]

Cluster(name, hosts, prefix, pools) ==
    [name |-> name, hosts |-> hosts, prefix |-> prefix, pools |-> pools]

\* Of the datastores and distributed switches only the number is kept: the
\* builder creates neither.
Datacenter(name, clusters, datastores, switches) ==
    [name |-> name, clusters |-> clusters, datastores |-> datastores, switches |-> switches]

-----------------------------------------------------------------------------
(* SimpleConfig: the same structure for every datacenter.                  *)

AtLeast(n, low) == IF n < low THEN low ELSE n

\* A faulty variant: the remainder of the division is lost.
EvenShares(vms) == <<vms \div 3, vms \div 3, vms \div 3>>

\* A third each for Web and App, and what remains for DB.
PoolShares(vms) == <<vms \div 3, vms \div 3, vms - 2 * (vms \div 3)>>

\* A pool without VMs is left out.
Unless0(pool) == IF pool.count > 0 THEN <<pool>> ELSE <<>>

SimplePools(d, c, vms) ==
    LET share == PoolShares(vms)
    IN  Unless0(Pool("RP-Web", share[1], <<"vm-web", d, c>>))
        \o Unless0(Pool("RP-App", share[2], <<"vm-app", d, c>>))
        \o Unless0(Pool("RP-DB", share[3], <<"vm-db", d, c>>))

SimpleConfig(f) ==
    [d \in 1..AtLeast(f.dc, 1) |->
        Datacenter(<<"DC", d>>,
            [c \in 1..AtLeast(f.cluster, 1) |->
                Cluster(<<"Cluster", c>>, AtLeast(f.host, 1), <<"ESXi", d, c>>,
                        SimplePools(d, c, AtLeast(f.vm, 0)))],
            AtLeast(f.ds, 1), AtLeast(f.dvs, 0))]

-----------------------------------------------------------------------------
(* DefaultConfig: five datacenters.                                        *)

dcUSEast == Datacenter(<<"DC-US-East">>, <<
    Cluster(<<"Cluster-WebTier">>, 8, <<"ESXi-WEB-E">>,
        <<Pool("RP-FrontEnd", 48, "web-fe"), Pool("RP-CDN-Cache", 48, "cdn-cache")>>),
    Cluster(<<"Cluster-AppTier">>, 10, <<"ESXi-APP-E">>,
        <<Pool("RP-Microservices", 60, "msvc"), Pool("RP-API-Gateway", 20, "apigw"),
          Pool("RP-MessageQueue", 20, "mq")>>),
    Cluster(<<"Cluster-DBTier">>, 6, <<"ESXi-DB-E">>,
        <<Pool("RP-MySQL", 16, "mysql"), Pool("RP-PostgreSQL", 16, "pgsql"),
          Pool("RP-Redis", 16, "redis")>>),
    Cluster(<<"Cluster-BigData">>, 8, <<"ESXi-BD-E">>,
        <<Pool("RP-Hadoop", 40, "hadoop"), Pool("RP-Spark", 40, "spark")>>)>>, 13, 1)

dcUSWest == Datacenter(<<"DC-US-West">>, <<
    Cluster(<<"Cluster-Prod-West">>, 8, <<"ESXi-PROD-W">>,
        <<Pool("RP-WebTier", 30, "web-w"), Pool("RP-AppTier", 30, "app-w"),
          Pool("RP-DBTier", 20, "db-w")>>),
    Cluster(<<"Cluster-DR">>, 6, <<"ESXi-DR-W">>,
        <<Pool("RP-DR-Active", 36, "dr-active"), Pool("RP-DR-Standby", 36, "dr-standby")>>),
    Cluster(<<"Cluster-Edge">>, 4, <<"ESXi-EDGE-W">>,
        <<Pool("RP-EdgeServices", 32, "edge")>>)>>, 11, 2)

dcEU == Datacenter(<<"DC-EU-Frankfurt">>, <<
    Cluster(<<"Cluster-EU-Prod">>, 6, <<"ESXi-EU">>,
        <<Pool("RP-EU-Web", 20, "eu-web"), Pool("RP-EU-App", 25, "eu-app"),
          Pool("RP-EU-DB", 15, "eu-db")>>),
    Cluster(<<"Cluster-EU-Compliance">>, 4, <<"ESXi-EU-C">>,
        <<Pool("RP-GDPR-Workloads", 32, "gdpr")>>)>>, 4, 1)

dcAPAC == Datacenter(<<"DC-APAC-Singapore">>, <<
    Cluster(<<"Cluster-APAC-Prod">>, 6, <<"ESXi-APAC">>,
        <<Pool("RP-APAC-Web", 16, "apac-web"), Pool("RP-APAC-App", 20, "apac-app"),
          Pool("RP-APAC-DB", 12, "apac-db")>>),
    Cluster(<<"Cluster-APAC-Dev">>, 4, <<"ESXi-APAC-D">>,
        <<Pool("RP-Dev", 20, "apac-dev"), Pool("RP-QA", 20, "apac-qa")>>)>>, 3, 1)

dcDevLab == Datacenter(<<"DC-Dev-Lab">>, <<
    Cluster(<<"Cluster-Dev">>, 6, <<"ESXi-DEV">>,
        <<Pool("RP-Dev-Team-Alpha", 30, "dev-alpha"), Pool("RP-Dev-Team-Beta", 30, "dev-beta"),
          Pool("RP-CI-CD", 30, "cicd")>>),
    Cluster(<<"Cluster-Staging">>, 4, <<"ESXi-STG">>,
        <<Pool("RP-Staging-Int", 24, "stg-int"), Pool("RP-Staging-Perf", 24, "stg-perf")>>),
    Cluster(<<"Cluster-Sandbox">>, 4, <<"ESXi-SBX">>,
        <<Pool("RP-Sandbox", 40, "sbx")>>)>>, 5, 1)

DefaultConfig == <<dcUSEast, dcUSWest, dcEU, dcAPAC, dcDevLab>>

-----------------------------------------------------------------------------
(* Hardware profiles: the vendors of CPU and BIOS, the BIOS version, the   *)
(* sockets and logical threads, and the memory in GB.                      *)

Hw(cpu, bios, version, sockets, threads, memory) ==
    [cpu |-> cpu, bios |-> bios, version |-> version, sockets |-> sockets,
     threads |-> threads, memory |-> memory]

DellR760   == Hw("intel", "Dell Inc.", "1.6.2", 2, 128, 512)
DellR750   == Hw("intel", "Dell Inc.", "1.8.1", 2, 128, 512)
DellR660   == Hw("intel", "Dell Inc.", "2.1.3", 2, 96, 256)
DellR740xd == Hw("intel", "Dell Inc.", "2.14.1", 2, 80, 384)

HPE_DL380_Gen10Plus == Hw("intel", "HPE", "U30 v2.70", 2, 96, 512)
HPE_DL360_Gen11     == Hw("intel", "HPE", "U46 v1.56", 2, 32, 256)
HPE_DL380_Gen11     == Hw("intel", "HPE", "U46 v1.62", 2, 128, 1024)

Cisco_C240_M7 == Hw("intel", "Cisco Systems Inc", "C240M7.5.2.0.230050", 2, 128, 512)
Cisco_210C_M7 == Hw("intel", "Cisco Systems Inc", "UCSX-M7.5.2.0.230045", 2, 128, 512)

Lenovo_SR650_V3 == Hw("intel", "Lenovo", "U8E126I-2.20", 2, 128, 512)
Lenovo_SR630_V3 == Hw("intel", "Lenovo", "U8E122I-1.80", 2, 32, 128)

Supermicro_621C == Hw("amd", "American Megatrends", "1.5", 2, 256, 1024)
Supermicro_121H == Hw("amd", "American Megatrends", "1.3a", 2, 128, 512)

\* Hosts of odd index get the first profile of the row of their cluster, those of
\* even index the second.
ClusterProfiles ==
    {<<<<"Cluster-WebTier">>, DellR760, DellR750>>,
     <<<<"Cluster-AppTier">>, DellR760, DellR660>>,
     <<<<"Cluster-DBTier">>, DellR740xd, DellR750>>,
     <<<<"Cluster-BigData">>, HPE_DL380_Gen11, HPE_DL380_Gen10Plus>>,
     <<<<"Cluster-Prod-West">>, HPE_DL380_Gen10Plus, HPE_DL380_Gen11>>,
     <<<<"Cluster-DR">>, HPE_DL380_Gen10Plus, Cisco_C240_M7>>,
     <<<<"Cluster-Edge">>, Cisco_210C_M7, Cisco_C240_M7>>,
     <<<<"Cluster-EU-Prod">>, Cisco_C240_M7, Cisco_210C_M7>>,
     <<<<"Cluster-EU-Compliance">>, Lenovo_SR650_V3, Lenovo_SR630_V3>>,
     <<<<"Cluster-APAC-Prod">>, Lenovo_SR650_V3, Lenovo_SR630_V3>>,
     <<<<"Cluster-APAC-Dev">>, Supermicro_121H, Supermicro_621C>>,
     <<<<"Cluster-Dev">>, Supermicro_621C, Supermicro_121H>>,
     <<<<"Cluster-Staging">>, DellR660, HPE_DL360_Gen11>>,
     <<<<"Cluster-Sandbox">>, Supermicro_121H, Lenovo_SR630_V3>>}

\* A cluster without a row gets the Dell R750.
ProfileForHost(cluster, i) ==
    IF \E row \in ClusterProfiles : row[1] = cluster
    THEN (CHOOSE row \in ClusterProfiles : row[1] = cluster)[IF i % 2 = 0 THEN 3 ELSE 2]
    ELSE DellR750

\* The profiles that some host can get.
Profiles == {DellR750} \union UNION {{row[2], row[3]} : row \in ClusterProfiles}

-----------------------------------------------------------------------------
(* BuildSensors: the number of sensors of every type.                      *)

\* "The Site24x7 poller buckets sensors by HostNumericSensorInfo.SensorType"; a
\* type it does not know, such as system, is bucketed as other.
Category == {"power", "fan", "temperature", "voltage", "memory", "battery", "watchdog",
             "storage", "systemboard", "bios", "cable", "processor", "other"}

Bucket(type) == IF type \in Category THEN type ELSE "other"

\* One DIMM for 32 GB, between 4 and 24.
Dimms(p) == LET n == AtLeast(p.memory \div 32, 4) IN IF n > 24 THEN 24 ELSE n

\* A faulty variant: two types are spelled otherwise than the poller does.
MisspelledSensors(p) ==
    [t \in {"system", "processor", "temperature", "fan", "power", "voltage", "memory",
            "battery", "storage", "board", "firmware", "cable", "watchdog"} |-> 1]

BuildSensors(p) ==
    LET sockets == AtLeast(p.sockets, 1)
    IN  [system |-> 1, processor |-> sockets, temperature |-> 2 + sockets, fan |-> 6,
         power |-> 5, voltage |-> 3 + sockets, memory |-> Dimms(p), battery |-> 2,
         storage |-> 2, systemboard |-> 2, bios |-> 1, cable |-> 1, watchdog |-> 1]

\* What the dashboard counts in a category.
Monitored(sensors, category) ==
    SumFunctionOnSet(sensors, {t \in DOMAIN sensors : Bucket(t) = category})
=============================================================================
