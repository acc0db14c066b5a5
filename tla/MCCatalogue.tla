----------------------------- MODULE MCCatalogue -----------------------------
(* One client at a time goes through all thirty scenarios on a cluster of  *)
(* three hosts with a VM and a datastore, while sessions come and go and   *)
(* objects are renamed.  The path "h*" is a pattern that matches two hosts.*)
EXTENDS ScenarioClaims, TLC

CONSTANTS w1, c1, h1, h2, h3, vm1, ds1

MCEntity == {c1, h1, h2, h3, vm1, ds1}
MCPath == {"c1", "h1", "h2", "h*", "vm1", "ds1"}
MCAt == [p \in MCPath |->
    CASE p = "c1" -> c1 [] p = "h2" -> h2 [] p = "vm1" -> vm1 [] p = "ds1" -> ds1
      [] OTHER -> h1]
MCHostsAt == [p \in MCPath |->
    CASE p = "h1" -> <<h1>> [] p = "h2" -> <<h2>> [] p = "h*" -> <<h1, h2>> [] OTHER -> <<>>]
MCHostsBelow == [p \in MCPath |-> IF p = "c1" THEN <<h1, h2, h3>> ELSE <<>>]
MCVMsAt == [p \in MCPath |-> IF p = "vm1" THEN <<vm1>> ELSE <<>>]
MCWords == [p \in MCPath |-> <<p>>]
MCHostOf == [e \in {vm1} |-> h1]

Ask(op, id, targets, duration, param) ==
    [op |-> op, id |-> id, targets |-> targets, duration |-> duration, param |-> param]

\* Where a scenario is tried.
Tried(id) ==
    CASE id \in ClusterScenario -> {<<"c1">>, <<"c1", "h1">>}
      [] id \in {"host_psod", "host_maintenance"} -> {<<"h1">>, <<"h1", "h2">>, <<"h*">>}
      [] id = "net_mgmt_partition" -> {<<"h1", "vm1">>}
      [] id \in VMScenario -> {<<"vm1">>}
      [] id \in {"cpu_host_saturation", "mem_host_exhaustion"} -> {<<"h1">>, <<"h*">>}
      [] id \in {"disk_ds_full", "disk_apd", "disk_ds_inaccessible"} -> {<<"ds1">>}
      [] OTHER -> {<<"h2", "ds1">>}

\* host_count: not given (more than the cluster has), one, and negative.
Params(id) ==
    IF id \in {"host_boot_storm", "cascade_rack_power"} THEN {NoParam, 1, 0 - 1}
    ELSE IF id = "vm_snapshot_growth" THEN {2} ELSE {NoParam}

\* Scenarios that only override last for a second, the others until undone.
Lasts(id) == IF id \in RefScenario THEN 1 ELSE 0

MCRequest ==
    {Ask("clearAll", "", <<>>, 0, NoParam),
     Ask("activate", "disk_fire", <<"h1">>, 0, NoParam),
     Ask("activate", "host_psod", <<>>, 0, NoParam)}
    \union UNION {{Ask("activate", id, t, Lasts(id), n) : t \in Tried(id), n \in Params(id)}
                  : id \in registerAllScenarios}
    \union UNION {{Ask("deactivate", id, t, 0, NoParam) : t \in Tried(id)}
                  : id \in registerAllScenarios}

\* Where sessions end in between: the scenarios that make vSphere calls, and
\* one that only sets overrides.
FaultRequest == {r \in MCRequest : r.id \in RefScenario => r.id = "disk_apd"}

Sessions == Permutations(Session)

\* An operator who uses what the API documents, on one path.
Operate(id, path, duration) ==
    {Ask("activate", id, <<path>>, duration, NoParam),
     Ask("deactivate", id, <<path>>, 0, NoParam),
     Ask("clearAll", "", <<>>, 0, NoParam)}

Storm == Operate("host_boot_storm", "c1", 0)
Crash == Operate("host_psod", "h1", 0)
Brief == Operate("mem_vm_leak", "vm1", 1)
=============================================================================
